---------------------------- MODULE Spec2Model ----------------------------
(***************************************************************************)
(* Kernel TLS offload of olebeck/goktls: the capability table, the cipher  *)
(* wire encoders, the per-connection activation, the record-type I/O and   *)
(* the splice bridge, modelled from src/ktls.go, src/ktls_linux.go and     *)
(* src/ktls_cipher_linux.go.                                               *)
(*                                                                         *)
(* The kernel is the environment: every socket call, recvmsg, sendmsg and  *)
(* splice has its outcome chosen nondeterministically.  System calls that  *)
(* fail return -1 as their count, as the Go syscall layer does.            *)
(***************************************************************************)
EXTENDS Integers, Sequences, FiniteSets, TLC

(***************************************************************************)
(* Bounds of the model.                                                    *)
(***************************************************************************)
\* how many handshakes (activations) one connection goes through
MaxHandshakes == 2
\* the largest byte count a bulk transfer is asked to move
MaxRemain == 3
\* the chunk size of one socket->pipe splice (4 MiB in the code, scaled)
maxSpliceSize == 2
\* how often one operation may be suspended on would-block
MaxEagain == 2
\* the length of the caller's buffer of a record read
BufLen == 3
\* the largest file offset writeToFile starts from
MaxOffset == 1
\* the window of one c.Read in writeToFile (4 MiB in the code, scaled)
maxBufferSize == 2

(***************************************************************************)
(* Constants of src/ktls_linux.go and src/ktls_cipher_linux.go.            *)
(***************************************************************************)
TCP_ULP == 31
TLS_TX == 1
TLS_RX == 2
TLS_TX_ZEROCOPY_RO == 3
TLS_RX_EXPECT_NO_PAD == 4
SOL_TLS == 282
TLS_GET_RECORD_TYPE == 2

kTLS_CIPHER_AES_GCM_128 == 51
kTLS_CIPHER_AES_GCM_128_IV_SIZE == 8
kTLS_CIPHER_AES_GCM_128_KEY_SIZE == 16
kTLS_CIPHER_AES_GCM_128_SALT_SIZE == 4
kTLS_CIPHER_AES_GCM_128_REC_SEQ_SIZE == 8

kTLS_CIPHER_AES_GCM_256 == 52
kTLS_CIPHER_AES_GCM_256_IV_SIZE == 8
kTLS_CIPHER_AES_GCM_256_KEY_SIZE == 32
kTLS_CIPHER_AES_GCM_256_SALT_SIZE == 4
kTLS_CIPHER_AES_GCM_256_REC_SEQ_SIZE == 8

kTLS_CIPHER_CHACHA20_POLY1305 == 54
kTLS_CIPHER_CHACHA20_POLY1305_IV_SIZE == 12
kTLS_CIPHER_CHACHA20_POLY1305_KEY_SIZE == 32
kTLS_CIPHER_CHACHA20_POLY1305_SALT_SIZE == 0
kTLS_CIPHER_CHACHA20_POLY1305_REC_SEQ_SIZE == 8

kTLSCryptoInfoSize_AES_GCM_128 ==
    2 + 2 + kTLS_CIPHER_AES_GCM_128_IV_SIZE + kTLS_CIPHER_AES_GCM_128_KEY_SIZE
      + kTLS_CIPHER_AES_GCM_128_SALT_SIZE + kTLS_CIPHER_AES_GCM_128_REC_SEQ_SIZE
kTLSCryptoInfoSize_AES_GCM_256 ==
    2 + 2 + kTLS_CIPHER_AES_GCM_256_IV_SIZE + kTLS_CIPHER_AES_GCM_256_KEY_SIZE
      + kTLS_CIPHER_AES_GCM_256_SALT_SIZE + kTLS_CIPHER_AES_GCM_256_REC_SEQ_SIZE
kTLSCryptoInfoSize_CHACHA20_POLY1305 ==
    2 + 2 + kTLS_CIPHER_CHACHA20_POLY1305_IV_SIZE
      + kTLS_CIPHER_CHACHA20_POLY1305_KEY_SIZE
      + kTLS_CIPHER_CHACHA20_POLY1305_SALT_SIZE
      + kTLS_CIPHER_CHACHA20_POLY1305_REC_SEQ_SIZE

(***************************************************************************)
(* Constants of the surrounding crypto/tls package that the code uses.     *)
(***************************************************************************)
VersionTLS12 == 771
VersionTLS13 == 772
recordTypeAlert == 21
recordTypeApplicationData == 23
alertCloseNotify == 0

\* the cipher suites enableKernelTLS switches on, by name
SuitesAES128TLS12 ==
    { "TLS_ECDHE_RSA_WITH_AES_128_GCM_SHA256",
      "TLS_ECDHE_ECDSA_WITH_AES_128_GCM_SHA256",
      "TLS_RSA_WITH_AES_128_GCM_SHA256" }
SuitesAES256TLS12 ==
    { "TLS_ECDHE_RSA_WITH_AES_256_GCM_SHA384",
      "TLS_ECDHE_ECDSA_WITH_AES_256_GCM_SHA384",
      "TLS_RSA_WITH_AES_256_GCM_SHA384" }
SuitesCHACHA20TLS12 ==
    { "TLS_ECDHE_RSA_WITH_CHACHA20_POLY1305_SHA256",
      "TLS_ECDHE_ECDSA_WITH_CHACHA20_POLY1305_SHA256" }

(***************************************************************************)
(* Errors, as the values the code returns.                                 *)
(***************************************************************************)
nil == "nil"
ErrKeyLen == "kTLS: wrong key length"
ErrIVLen == "kTLS: wrong iv length"
ErrSeqLen == "kTLS: wrong seq length"
ErrInfoSize == "kTLS: wrong cryptoInfo size"
ErrUlp == "setsockopt(SOL_TCP, TCP_ULP) failed"
ErrOpt == "setsockopt(SOL_TLS, opt) failed"
EAGAIN == "EAGAIN"
EIO == "EIO"
ErrDeadline == "i/o timeout"
EOF == "EOF"

(***************************************************************************)
(* Byte slices.                                                            *)
(***************************************************************************)
Min(a, b) == IF a < b THEN a ELSE b

Range(s) == { s[i] : i \in 1..Len(s) }

\* a byte slice of length n with recognisable contents
Bytes(n, base) == [i \in 1..n |-> (base + i) % 256]

Zeros(n) == [i \in 1..n |-> 0]

\* Go's copy(dst, src): the first min(len(dst), len(src)) bytes of src
Copy(dst, src) ==
    [i \in 1..Len(dst) |-> IF i <= Len(src) THEN src[i] ELSE dst[i]]

\* s[from:] with a 0-based index, as Go slices
SliceFrom(s, from) == SubSeq(s, from + 1, Len(s))

\* s[:to]
SliceTo(s, to) == SubSeq(s, 1, to)

\* a uint16 field as it lies in memory (little endian)
LE16(x) == << x % 256, x \div 256 >>

\* one setsockopt on the socket and what the kernel answered
SockCall(level, opt, val, ok) ==
    [level |-> level, opt |-> opt, val |-> val, ok |-> ok]

(***************************************************************************)
(* Cipher wire encoders (src/ktls_cipher_linux.go).  An encoder returns    *)
(* its error and the socket calls it made, in order.  bindOk and optOk are *)
(* the kernel's answers to the ULP bind and to the cipher option.          *)
(***************************************************************************)
\* kTLSCryptoInfoAESGCM128 as the bytes handed to setsockopt
kTLSCryptoInfoAESGCM128(version, key, iv, seq) ==
    LE16(version) \o LE16(kTLS_CIPHER_AES_GCM_128)
      \o Copy(Zeros(kTLS_CIPHER_AES_GCM_128_IV_SIZE),
              SliceFrom(iv, kTLS_CIPHER_AES_GCM_128_SALT_SIZE))
      \o Copy(Zeros(kTLS_CIPHER_AES_GCM_128_KEY_SIZE), key)
      \o Copy(Zeros(kTLS_CIPHER_AES_GCM_128_SALT_SIZE),
              SliceTo(iv, kTLS_CIPHER_AES_GCM_128_SALT_SIZE))
      \o Copy(Zeros(kTLS_CIPHER_AES_GCM_128_REC_SEQ_SIZE), seq)

\* kTLSCryptoInfoAESGCM256 with the sequence number copied into the IV field
kTLSCryptoInfoAESGCM256SeqAsIV(version, key, iv, seq) ==
    LE16(version) \o LE16(kTLS_CIPHER_AES_GCM_256)
      \o Copy(Zeros(kTLS_CIPHER_AES_GCM_256_IV_SIZE), seq)
      \o Copy(Zeros(kTLS_CIPHER_AES_GCM_256_KEY_SIZE), key)
      \o Copy(Zeros(kTLS_CIPHER_AES_GCM_256_SALT_SIZE),
              SliceTo(iv, kTLS_CIPHER_AES_GCM_256_SALT_SIZE))
      \o Copy(Zeros(kTLS_CIPHER_AES_GCM_256_REC_SEQ_SIZE), seq)

kTLSCryptoInfoAESGCM256(version, key, iv, seq) ==
    LE16(version) \o LE16(kTLS_CIPHER_AES_GCM_256)
      \o Copy(Zeros(kTLS_CIPHER_AES_GCM_256_IV_SIZE),
              SliceFrom(iv, kTLS_CIPHER_AES_GCM_256_SALT_SIZE))
      \o Copy(Zeros(kTLS_CIPHER_AES_GCM_256_KEY_SIZE), key)
      \o Copy(Zeros(kTLS_CIPHER_AES_GCM_256_SALT_SIZE),
              SliceTo(iv, kTLS_CIPHER_AES_GCM_256_SALT_SIZE))
      \o Copy(Zeros(kTLS_CIPHER_AES_GCM_256_REC_SEQ_SIZE), seq)

kTLSCryptoInfoCHACHA20POLY1305(version, key, iv, seq) ==
    LE16(version) \o LE16(kTLS_CIPHER_CHACHA20_POLY1305)
      \o Copy(Zeros(kTLS_CIPHER_CHACHA20_POLY1305_IV_SIZE), iv)
      \o Copy(Zeros(kTLS_CIPHER_CHACHA20_POLY1305_KEY_SIZE), key)
      \o Zeros(kTLS_CIPHER_CHACHA20_POLY1305_SALT_SIZE)
      \o Copy(Zeros(kTLS_CIPHER_CHACHA20_POLY1305_REC_SEQ_SIZE), seq)

\* ValidateAES128GCM without the IV checks
ValidateAES128GCMNoIV(version, key, iv, seq) ==
    IF Len(key) # kTLS_CIPHER_AES_GCM_128_KEY_SIZE THEN ErrKeyLen
    ELSE IF Len(seq) # kTLS_CIPHER_AES_GCM_128_REC_SEQ_SIZE THEN ErrSeqLen
    ELSE nil

\* the length checks of ktlsEnableAES128GCM, in the code's order
ValidateAES128GCM(version, key, iv, seq) ==
    IF Len(key) # kTLS_CIPHER_AES_GCM_128_KEY_SIZE THEN ErrKeyLen
    ELSE IF version = VersionTLS12
    THEN IF Len(iv) # kTLS_CIPHER_AES_GCM_128_SALT_SIZE THEN ErrIVLen
         ELSE IF Len(seq) # kTLS_CIPHER_AES_GCM_128_REC_SEQ_SIZE THEN ErrSeqLen
         ELSE nil
    ELSE IF Len(iv) # kTLS_CIPHER_AES_GCM_128_SALT_SIZE
                        + kTLS_CIPHER_AES_GCM_128_IV_SIZE THEN ErrIVLen
         ELSE IF Len(seq) # kTLS_CIPHER_AES_GCM_128_REC_SEQ_SIZE THEN ErrSeqLen
         ELSE nil

ValidateAES256GCM(version, key, iv, seq) ==
    IF Len(key) # kTLS_CIPHER_AES_GCM_256_KEY_SIZE THEN ErrKeyLen
    ELSE IF version = VersionTLS12
    THEN IF Len(iv) # kTLS_CIPHER_AES_GCM_256_SALT_SIZE THEN ErrIVLen
         ELSE IF Len(seq) # kTLS_CIPHER_AES_GCM_256_REC_SEQ_SIZE THEN ErrSeqLen
         ELSE nil
    ELSE IF Len(iv) # kTLS_CIPHER_AES_GCM_256_SALT_SIZE
                        + kTLS_CIPHER_AES_GCM_256_IV_SIZE THEN ErrIVLen
         ELSE IF Len(seq) # kTLS_CIPHER_AES_GCM_256_REC_SEQ_SIZE THEN ErrSeqLen
         ELSE nil

\* ValidateCHACHA20POLY1305 without the sequence number check
ValidateCHACHA20POLY1305NoSeq(key, iv, seq) ==
    IF Len(key) # kTLS_CIPHER_CHACHA20_POLY1305_KEY_SIZE THEN ErrKeyLen
    ELSE IF Len(iv) # kTLS_CIPHER_CHACHA20_POLY1305_IV_SIZE THEN ErrIVLen
    ELSE nil

ValidateCHACHA20POLY1305(key, iv, seq) ==
    IF Len(key) # kTLS_CIPHER_CHACHA20_POLY1305_KEY_SIZE THEN ErrKeyLen
    ELSE IF Len(iv) # kTLS_CIPHER_CHACHA20_POLY1305_IV_SIZE THEN ErrIVLen
    ELSE IF Len(seq) # kTLS_CIPHER_CHACHA20_POLY1305_REC_SEQ_SIZE THEN ErrSeqLen
    ELSE nil

\* the rwc.Control callback of ktlsEnableAES128GCM: a failed ULP bind is
\* logged and the cipher option is set all the same; err0 is overwritten
ControlAES128GCM(opt, skip, blob, bindOk, optOk) ==
    LET bind == IF skip THEN << >>
                ELSE << SockCall("SOL_TCP", TCP_ULP, "tls", bindOk) >>
    IN  [err   |-> IF optOk THEN nil ELSE ErrOpt,
         calls |-> bind \o << SockCall("SOL_TLS", opt, blob, optOk) >>]

\* ControlReturnOnBindFailure without its last "return err": a rejected
\* cipher option goes unreported
ControlDroppingOptionError(opt, skip, blob, bindOk, optOk) ==
    IF ~skip /\ ~bindOk
    THEN [err   |-> ErrUlp,
          calls |-> << SockCall("SOL_TCP", TCP_ULP, "tls", FALSE) >>]
    ELSE LET bind == IF skip THEN << >>
                     ELSE << SockCall("SOL_TCP", TCP_ULP, "tls", TRUE) >>
         IN  [err   |-> nil,
              calls |-> bind \o << SockCall("SOL_TLS", opt, blob, optOk) >>]

\* the rwc.Control callback of ktlsEnableAES256GCM and of
\* ktlsEnableCHACHA20POLY1305: a failed ULP bind returns
ControlReturnOnBindFailure(opt, skip, blob, bindOk, optOk) ==
    IF ~skip /\ ~bindOk
    THEN [err   |-> ErrUlp,
          calls |-> << SockCall("SOL_TCP", TCP_ULP, "tls", FALSE) >>]
    ELSE LET bind == IF skip THEN << >>
                     ELSE << SockCall("SOL_TCP", TCP_ULP, "tls", TRUE) >>
         IN  [err   |-> IF optOk THEN nil ELSE ErrOpt,
              calls |-> bind \o << SockCall("SOL_TLS", opt, blob, optOk) >>]

ktlsEnableAES128GCM(version, opt, skip, key, iv, seq, bindOk, optOk) ==
    LET v == ValidateAES128GCM(version, key, iv, seq)
        cryptoInfo == kTLSCryptoInfoAESGCM128(version, key, iv, seq)
    IN  IF v # nil THEN [err |-> v, calls |-> << >>]
        ELSE IF Len(cryptoInfo) # kTLSCryptoInfoSize_AES_GCM_128
        THEN [err |-> ErrInfoSize, calls |-> << >>]
        ELSE ControlAES128GCM(opt, skip, cryptoInfo, bindOk, optOk)

ktlsEnableAES256GCM(version, opt, skip, key, iv, seq, bindOk, optOk) ==
    LET v == ValidateAES256GCM(version, key, iv, seq)
        cryptoInfo == kTLSCryptoInfoAESGCM256(version, key, iv, seq)
    IN  IF v # nil THEN [err |-> v, calls |-> << >>]
        ELSE IF Len(cryptoInfo) # kTLSCryptoInfoSize_AES_GCM_256
        THEN [err |-> ErrInfoSize, calls |-> << >>]
        ELSE ControlReturnOnBindFailure(opt, skip, cryptoInfo, bindOk, optOk)

ktlsEnableCHACHA20POLY1305(version, opt, skip, key, iv, seq, bindOk, optOk) ==
    LET v == ValidateCHACHA20POLY1305(key, iv, seq)
        cryptoInfo == kTLSCryptoInfoCHACHA20POLY1305(version, key, iv, seq)
    IN  IF v # nil THEN [err |-> v, calls |-> << >>]
        ELSE IF Len(cryptoInfo) # kTLSCryptoInfoSize_CHACHA20_POLY1305
        THEN [err |-> ErrInfoSize, calls |-> << >>]
        ELSE ControlReturnOnBindFailure(opt, skip, cryptoInfo, bindOk, optOk)

\* the enableFunc argument of ktlsEnableAES, and the ChaCha20 encoder
Families == {"AES128GCM", "AES256GCM", "CHACHA20POLY1305"}

Encoder(family, version, opt, skip, key, iv, seq, bindOk, optOk) ==
    CASE family = "AES128GCM" ->
           ktlsEnableAES128GCM(version, opt, skip, key, iv, seq, bindOk, optOk)
      [] family = "AES256GCM" ->
           ktlsEnableAES256GCM(version, opt, skip, key, iv, seq, bindOk, optOk)
      [] family = "CHACHA20POLY1305" ->
           ktlsEnableCHACHA20POLY1305(version, opt, skip, key, iv, seq,
                                      bindOk, optOk)

\* the socket calls of ktlsEnableTxZerocopySendfile (its error is dropped)
ktlsEnableTxZerocopySendfile(kTLSSupportZEROCOPY, zcOk) ==
    IF ~kTLSSupportZEROCOPY THEN << >>
    ELSE << SockCall("SOL_TLS", TLS_TX_ZEROCOPY_RO, 1, zcOk) >>

\* the socket calls of ktlsEnableRxExpectNoPad (its error is dropped)
ktlsEnableRxExpectNoPad(kTLSSupportNOPAD, nopadOk) ==
    IF ~kTLSSupportNOPAD THEN << >>
    ELSE << SockCall("SOL_TLS", TLS_RX_EXPECT_NO_PAD, 1, nopadOk) >>

(***************************************************************************)
(* Capability table (src/ktls_linux.go, init).  statOk: /sys/module/tls    *)
(* exists; unameOk: uname succeeded; major, minor: the parsed release.     *)
(***************************************************************************)
NoCaps ==
    [kTLSSupport |-> FALSE, kTLSSupportTX |-> FALSE, kTLSSupportRX |-> FALSE,
     kTLSSupportAESGCM128 |-> FALSE, kTLSSupportAESGCM256 |-> FALSE,
     kTLSSupportCHACHA20POLY1305 |-> FALSE, kTLSSupportTLS13TX |-> FALSE,
     kTLSSupportTLS13RX |-> FALSE, kTLSSupportZEROCOPY |-> FALSE,
     kTLSSupportNOPAD |-> FALSE]

\* the thresholds with the AES-256-GCM and TLS 1.3 TX test written for
\* major 5 alone
ThresholdsWithinMajor(major, minor) ==
    [kTLSSupport |-> TRUE,
     kTLSSupportTX |-> (major = 4 /\ minor >= 13) \/ major > 4,
     kTLSSupportAESGCM128 |-> (major = 4 /\ minor >= 13) \/ major > 4,
     kTLSSupportRX |-> (major = 4 /\ minor >= 17) \/ major > 4,
     kTLSSupportAESGCM256 |-> major = 5 /\ minor >= 1,
     kTLSSupportTLS13TX |-> major = 5 /\ minor >= 1,
     kTLSSupportCHACHA20POLY1305 |-> (major = 5 /\ minor >= 11) \/ major > 5,
     kTLSSupportZEROCOPY |-> (major = 5 /\ minor >= 19) \/ major > 5,
     kTLSSupportTLS13RX |-> major > 5,
     kTLSSupportNOPAD |-> major > 5]

\* the thresholds of init, applied to a parsed major and minor
Thresholds(major, minor) ==
    [kTLSSupport |-> TRUE,
     kTLSSupportTX |-> (major = 4 /\ minor >= 13) \/ major > 4,
     kTLSSupportAESGCM128 |-> (major = 4 /\ minor >= 13) \/ major > 4,
     kTLSSupportRX |-> (major = 4 /\ minor >= 17) \/ major > 4,
     kTLSSupportAESGCM256 |-> (major = 5 /\ minor >= 1) \/ major > 5,
     kTLSSupportTLS13TX |-> (major = 5 /\ minor >= 1) \/ major > 5,
     kTLSSupportCHACHA20POLY1305 |-> (major = 5 /\ minor >= 11) \/ major > 5,
     kTLSSupportZEROCOPY |-> (major = 5 /\ minor >= 19) \/ major > 5,
     kTLSSupportTLS13RX |-> major > 5,
     kTLSSupportNOPAD |-> major > 5]

\* the kernel release string is a sequence of characters
DigitChars == << "0", "1", "2", "3", "4", "5", "6", "7", "8", "9" >>

DigitVal(c) == CHOOSE d \in 0..9 : DigitChars[d + 1] = c

\* strings.Index(s, c) for a one-character c: 0-based, -1 if c is not in s
Index(s, c) ==
    IF \E i \in 1..Len(s) : s[i] = c
    THEN (CHOOSE i \in 1..Len(s) : s[i] = c /\ \A j \in 1..(i - 1) : s[j] # c) - 1
    ELSE -1

\* strings.TrimLeft(s, cutset): s without its leading characters that are
\* in cutset (a set of characters, not a prefix)
RECURSIVE TrimLeft(_, _)
TrimLeft(s, cutset) ==
    IF s # << >> /\ s[1] \in cutset THEN TrimLeft(Tail(s), cutset) ELSE s

RECURSIVE DecimalValue(_)
DecimalValue(s) ==
    IF s = << >> THEN 0
    ELSE DecimalValue(SubSeq(s, 1, Len(s) - 1)) * 10 + DigitVal(s[Len(s)])

\* strconv.Atoi: an optional sign, then decimal digits and nothing else
Atoi(s) ==
    LET signed == s # << >> /\ s[1] \in {"+", "-"}
        digits == IF signed THEN Tail(s) ELSE s
    IN  IF digits = << >> \/ \E i \in 1..Len(digits) : digits[i] \notin Range(DigitChars)
        THEN [err |-> TRUE, val |-> 0]
        ELSE [err |-> FALSE,
              val |-> IF signed /\ s[1] = "-" THEN 0 - DecimalValue(digits)
                      ELSE DecimalValue(digits)]

\* lines 87-100 of init: major and minor out of the release string.  A slice
\* bound of -1 (no "." where one is looked for) is a run-time panic.
ParseRelease(release) ==
    LET i == Index(release, ".")
    IN  IF i = -1 THEN [panic |-> TRUE, err |-> FALSE, major |-> 0, minor |-> 0]
        ELSE
        LET majorRelease == SliceTo(release, i)
            trimmed == TrimLeft(release, Range(majorRelease) \cup {"."})
            j == Index(trimmed, ".")
        IN  IF j = -1
            THEN [panic |-> TRUE, err |-> FALSE, major |-> 0, minor |-> 0]
            ELSE
            LET major == Atoi(majorRelease)
                minor == Atoi(SliceTo(trimmed, j))
            IN  [panic |-> FALSE, err |-> major.err \/ minor.err,
                 major |-> major.val, minor |-> minor.val]

Probed(panic, caps) == [panic |-> panic, caps |-> caps]

\* init taking the TLS module's presence for the whole of kTLSSupport
kTLSInitIgnoringSwitch(statOk, enabled, unameOk, release) ==
    IF ~statOk THEN Probed(FALSE, NoCaps)
    ELSE IF ~unameOk THEN Probed(FALSE, [NoCaps EXCEPT !.kTLSSupport = TRUE])
    ELSE LET p == ParseRelease(release)
         IN  IF p.panic \/ p.err
             THEN Probed(p.panic, [NoCaps EXCEPT !.kTLSSupport = TRUE])
             ELSE Probed(FALSE, Thresholds(p.major, p.minor))

\* init: what it leaves in the kTLSSupport* variables, and whether it
\* panicked on the way
kTLSInit(statOk, enabled, unameOk, release) ==
    IF ~statOk THEN Probed(FALSE, NoCaps)
    ELSE IF ~enabled THEN Probed(FALSE, NoCaps)
    ELSE IF ~unameOk THEN Probed(FALSE, [NoCaps EXCEPT !.kTLSSupport = TRUE])
    ELSE LET p == ParseRelease(release)
         IN  IF p.panic \/ p.err
             THEN Probed(p.panic, [NoCaps EXCEPT !.kTLSSupport = TRUE])
             ELSE Probed(FALSE, Thresholds(p.major, p.minor))

(***************************************************************************)
(* Offload activation (ktlsEnableAES, ktlsEnableCHACHA20, enableKernelTLS).*)
(* m is the handshake's key material, k the kernel's answers to the socket *)
(* calls.  The result says which of *clientCipher (tx) and *serverCipher   *)
(* (rx) were set to kTLSCipher{}.                                          *)
(***************************************************************************)
Activation(err, calls, tx, rx, log) ==
    [err |-> err, calls |-> calls, tx |-> tx, rx |-> rx, log |-> log]

\* returned before either direction was looked at
NotTried == Activation(nil, << >>, FALSE, FALSE, << >>)

\* the Debugln lines of ktlsEnableAES and ktlsEnableCHACHA20
LogTxError == "kTLS: TLS_TX error enabling:"
LogTxEnabled == "kTLS: TLS_TX enabled"
LogTxConnType == "kTLS: TLS_TX unsupported connection type"
LogTxKeyLen == "kTLS: TLS_TX unsupported key length"
LogRxError == "kTLS: TLS_RX error enabling:"
LogRxEnabled == "kTLS: TLS_RX enabled"
LogRxConnType == "kTLS: TLS_RX unsupported connection type"

\* lines 129-155 of ktlsEnableAES: the RX half, after a TX half that did not
\* fail and left txCalls, txLog, tx (the TX flag) and ulpEnabled
ktlsEnableAESRx(caps, isTCP, version, family, keyLen, m, k, txCalls, txLog, tx, ulpEnabled) ==
    IF ~caps.kTLSSupportRX
         \/ (version = VersionTLS13 /\ ~caps.kTLSSupportTLS13RX)
    THEN Activation(nil, txCalls, tx, FALSE, txLog)
    ELSE IF Len(m.inKey) # keyLen
    THEN Activation(nil, txCalls, tx, FALSE, Append(txLog, LogTxKeyLen))
    ELSE IF ~isTCP
    THEN Activation(nil, txCalls, tx, FALSE, Append(txLog, LogRxConnType))
    ELSE
    LET rxr == Encoder(family, version, TLS_RX, ulpEnabled,
                       m.inKey, m.inIV, m.inSeq, k.bindRx, k.optRx)
    IN  IF rxr.err # nil
        THEN Activation(rxr.err, txCalls \o rxr.calls, tx, FALSE,
                        Append(txLog, LogRxError))
        ELSE Activation(nil,
                 txCalls \o rxr.calls
                   \o (IF version = VersionTLS13
                       THEN ktlsEnableRxExpectNoPad(caps.kTLSSupportNOPAD,
                                                    k.nopad)
                       ELSE << >>),
                 tx, TRUE, Append(txLog, LogRxEnabled))

\* ktlsEnableAES without "ulpEnabled = true" after the TX encoder
ktlsEnableAESUlpNotRecorded(caps, isTCP, version, family, keyLen, m, k) ==
    IF ~caps.kTLSSupportTX THEN NotTried
    ELSE IF Len(m.outKey) # keyLen
    THEN ktlsEnableAESRx(caps, isTCP, version, family, keyLen, m, k,
                         << >>, << LogTxKeyLen >>, FALSE, FALSE)
    ELSE IF ~isTCP
    THEN ktlsEnableAESRx(caps, isTCP, version, family, keyLen, m, k,
                         << >>, << LogTxConnType >>, FALSE, FALSE)
    ELSE
    LET txr == Encoder(family, version, TLS_TX, FALSE,
                       m.outKey, m.outIV, m.outSeq, k.bindTx, k.optTx)
    IN  IF txr.err # nil
        THEN Activation(txr.err, txr.calls, FALSE, FALSE, << LogTxError >>)
        ELSE ktlsEnableAESRx(caps, isTCP, version, family, keyLen, m, k,
                 txr.calls
                   \o ktlsEnableTxZerocopySendfile(caps.kTLSSupportZEROCOPY,
                                                   k.zc),
                 << LogTxEnabled >>, TRUE, FALSE)

\* lines 103-127 of ktlsEnableAES, the TX half, then the RX half
ktlsEnableAES(caps, isTCP, version, family, keyLen, m, k) ==
    IF ~caps.kTLSSupportTX THEN NotTried
    ELSE IF Len(m.outKey) # keyLen
    THEN ktlsEnableAESRx(caps, isTCP, version, family, keyLen, m, k,
                         << >>, << LogTxKeyLen >>, FALSE, FALSE)
    ELSE IF ~isTCP
    THEN ktlsEnableAESRx(caps, isTCP, version, family, keyLen, m, k,
                         << >>, << LogTxConnType >>, FALSE, FALSE)
    ELSE
    LET txr == Encoder(family, version, TLS_TX, FALSE,
                       m.outKey, m.outIV, m.outSeq, k.bindTx, k.optTx)
    IN  IF txr.err # nil
        THEN Activation(txr.err, txr.calls, FALSE, FALSE, << LogTxError >>)
        ELSE ktlsEnableAESRx(caps, isTCP, version, family, keyLen, m, k,
                 txr.calls
                   \o ktlsEnableTxZerocopySendfile(caps.kTLSSupportZEROCOPY,
                                                   k.zc),
                 << LogTxEnabled >>, TRUE, TRUE)

\* ktlsEnableCHACHA20Rx without the TLS 1.3 RX capability test
ktlsEnableCHACHA20RxAnyVersion(caps, isTCP, version, m, k, txCalls, txLog, tx, ulpEnabled) ==
    IF ~caps.kTLSSupportRX
    THEN Activation(nil, txCalls, tx, FALSE, txLog)
    ELSE IF ~isTCP
    THEN Activation(nil, txCalls, tx, FALSE, Append(txLog, LogRxConnType))
    ELSE
    LET rxr == ktlsEnableCHACHA20POLY1305(version, TLS_RX, ulpEnabled,
                       m.inKey, m.inIV, m.inSeq, k.bindRx, k.optRx)
    IN  IF rxr.err # nil
        THEN Activation(rxr.err, txCalls \o rxr.calls, tx, FALSE,
                        Append(txLog, LogRxError))
        ELSE Activation(nil,
                 txCalls \o rxr.calls
                   \o (IF version = VersionTLS13
                       THEN ktlsEnableRxExpectNoPad(caps.kTLSSupportNOPAD,
                                                    k.nopad)
                       ELSE << >>),
                 tx, TRUE, Append(txLog, LogRxEnabled))

\* lines 182-205 of ktlsEnableCHACHA20: the RX half
ktlsEnableCHACHA20Rx(caps, isTCP, version, m, k, txCalls, txLog, tx, ulpEnabled) ==
    IF ~caps.kTLSSupportRX
         \/ (version = VersionTLS13 /\ ~caps.kTLSSupportTLS13RX)
    THEN Activation(nil, txCalls, tx, FALSE, txLog)
    ELSE IF ~isTCP
    THEN Activation(nil, txCalls, tx, FALSE, Append(txLog, LogRxConnType))
    ELSE
    LET rxr == ktlsEnableCHACHA20POLY1305(version, TLS_RX, ulpEnabled,
                       m.inKey, m.inIV, m.inSeq, k.bindRx, k.optRx)
    IN  IF rxr.err # nil
        THEN Activation(rxr.err, txCalls \o rxr.calls, tx, FALSE,
                        Append(txLog, LogRxError))
        ELSE Activation(nil,
                 txCalls \o rxr.calls
                   \o (IF version = VersionTLS13
                       THEN ktlsEnableRxExpectNoPad(caps.kTLSSupportNOPAD,
                                                    k.nopad)
                       ELSE << >>),
                 tx, TRUE, Append(txLog, LogRxEnabled))

\* ktlsEnableCHACHA20 returning the error of ktlsEnableTxZerocopySendfile
ktlsEnableCHACHA20ZerocopyChecked(caps, isTCP, version, m, k) ==
    IF ~caps.kTLSSupportTX THEN NotTried
    ELSE IF ~isTCP
    THEN ktlsEnableCHACHA20Rx(caps, isTCP, version, m, k,
                              << >>, << LogTxConnType >>, FALSE, FALSE)
    ELSE
    LET txr == ktlsEnableCHACHA20POLY1305(version, TLS_TX, FALSE,
                       m.outKey, m.outIV, m.outSeq, k.bindTx, k.optTx)
    IN  IF txr.err # nil
        THEN Activation(txr.err, txr.calls, FALSE, FALSE, << LogTxError >>)
        ELSE IF caps.kTLSSupportZEROCOPY /\ ~k.zc
        THEN Activation(ErrOpt,
                 txr.calls
                   \o ktlsEnableTxZerocopySendfile(caps.kTLSSupportZEROCOPY,
                                                   k.zc),
                 TRUE, FALSE, << LogTxEnabled >>)
        ELSE ktlsEnableCHACHA20Rx(caps, isTCP, version, m, k,
                 txr.calls
                   \o ktlsEnableTxZerocopySendfile(caps.kTLSSupportZEROCOPY,
                                                   k.zc),
                 << LogTxEnabled >>, TRUE, TRUE)

\* lines 159-180 of ktlsEnableCHACHA20, the TX half, then the RX half
ktlsEnableCHACHA20(caps, isTCP, version, m, k) ==
    IF ~caps.kTLSSupportTX THEN NotTried
    ELSE IF ~isTCP
    THEN ktlsEnableCHACHA20Rx(caps, isTCP, version, m, k,
                              << >>, << LogTxConnType >>, FALSE, FALSE)
    ELSE
    LET txr == ktlsEnableCHACHA20POLY1305(version, TLS_TX, FALSE,
                       m.outKey, m.outIV, m.outSeq, k.bindTx, k.optTx)
    IN  IF txr.err # nil
        THEN Activation(txr.err, txr.calls, FALSE, FALSE, << LogTxError >>)
        ELSE ktlsEnableCHACHA20Rx(caps, isTCP, version, m, k,
                 txr.calls
                   \o ktlsEnableTxZerocopySendfile(caps.kTLSSupportZEROCOPY,
                                                   k.zc),
                 << LogTxEnabled >>, TRUE, TRUE)

\* enableKernelTLS without the capability tests of the case arms
enableKernelTLSUnguarded(caps, isTCP, cipherSuiteID, m, k) ==
    IF ~caps.kTLSSupport THEN NotTried
    ELSE IF cipherSuiteID \in SuitesAES128TLS12
    THEN ktlsEnableAES(caps, isTCP, VersionTLS12, "AES128GCM", 16, m, k)
    ELSE IF cipherSuiteID \in SuitesAES256TLS12
    THEN ktlsEnableAES(caps, isTCP, VersionTLS12, "AES256GCM", 32, m, k)
    ELSE IF cipherSuiteID \in SuitesCHACHA20TLS12
    THEN ktlsEnableCHACHA20(caps, isTCP, VersionTLS12, m, k)
    ELSE IF cipherSuiteID = "TLS_AES_128_GCM_SHA256"
    THEN ktlsEnableAES(caps, isTCP, VersionTLS13, "AES128GCM", 16, m, k)
    ELSE IF cipherSuiteID = "TLS_AES_256_GCM_SHA384"
    THEN ktlsEnableAES(caps, isTCP, VersionTLS13, "AES256GCM", 32, m, k)
    ELSE IF cipherSuiteID = "TLS_CHACHA20_POLY1305_SHA256"
    THEN ktlsEnableCHACHA20(caps, isTCP, VersionTLS13, m, k)
    ELSE NotTried

enableKernelTLS(caps, isTCP, cipherSuiteID, m, k) ==
    IF ~caps.kTLSSupport THEN NotTried
    ELSE IF cipherSuiteID \in SuitesAES128TLS12
    THEN IF ~caps.kTLSSupportAESGCM128
         THEN NotTried
         ELSE ktlsEnableAES(caps, isTCP, VersionTLS12, "AES128GCM", 16, m, k)
    ELSE IF cipherSuiteID \in SuitesAES256TLS12
    THEN IF ~caps.kTLSSupportAESGCM256
         THEN NotTried
         ELSE ktlsEnableAES(caps, isTCP, VersionTLS12, "AES256GCM", 32, m, k)
    ELSE IF cipherSuiteID \in SuitesCHACHA20TLS12
    THEN IF ~caps.kTLSSupportCHACHA20POLY1305
         THEN NotTried
         ELSE ktlsEnableCHACHA20(caps, isTCP, VersionTLS12, m, k)
    ELSE IF cipherSuiteID = "TLS_AES_128_GCM_SHA256"
    THEN IF ~caps.kTLSSupportAESGCM128 \/ ~caps.kTLSSupportTLS13TX
         THEN NotTried
         ELSE ktlsEnableAES(caps, isTCP, VersionTLS13, "AES128GCM", 16, m, k)
    ELSE IF cipherSuiteID = "TLS_AES_256_GCM_SHA384"
    THEN IF ~caps.kTLSSupportAESGCM256 \/ ~caps.kTLSSupportTLS13TX
         THEN NotTried
         ELSE ktlsEnableAES(caps, isTCP, VersionTLS13, "AES256GCM", 32, m, k)
    ELSE IF cipherSuiteID = "TLS_CHACHA20_POLY1305_SHA256"
    THEN IF ~caps.kTLSSupportCHACHA20POLY1305 \/ ~caps.kTLSSupportTLS13TX
         THEN NotTried
         ELSE ktlsEnableCHACHA20(caps, isTCP, VersionTLS13, m, k)
    ELSE NotTried

(***************************************************************************)
(* The state: one process (its capability table) and one connection.       *)
(***************************************************************************)
VARIABLES
    kTLSEnabled,  \* the policy switch, as init read it (src/ktls.go)
    caps,         \* the kTLSSupport* variables, set once by init
    isTCP,        \* c.conn is a *net.TCPConn
    pc,           \* where the connection's one operation in flight stands
    op,           \* the operation in flight, or the last one that returned
    nHandshakes,  \* handshakes completed on the connection
    hs,           \* the handshake's outputs, until enableKernelTLS used them
    txOffloaded,  \* *clientCipher is kTLSCipher{}: IsKTLSTXEnabled
    rxOffloaded,  \* *serverCipher is kTLSCipher{}: IsKTLSRXEnabled
    sockCfg,      \* which cipher options the kernel accepted on the socket
    act,          \* what the last enableKernelTLS returned and called
    remain,       \* spliceToFile: bytes still to move
    written,      \* spliceToFile: its named result
    n,            \* the count the last system call returned
    err,          \* the err variable of the operation in flight
    spliceReq,    \* the remain spliceToFile was called with
    streamLen,    \* how many bytes the peer sends before it closes
    sockTaken,    \* bytes spliced out of the socket so far
    pipe,         \* the bytes in the temporary pipe
    file,         \* the bytes the transfer wrote to the file, in order
    eagains,      \* would-block results of the operation in flight
    b,            \* the caller's buffer of a record read or write
    rec,          \* what ktlsReadRecord returned to ktlsReadDataFromRecord
    ret,          \* what the last operation returned
    mmap,         \* writeToFile: the file's offset and size, start and end
    res           \* pipes made and pipe ends closed, mappings made and released

vars == << kTLSEnabled, caps, isTCP, pc, op, nHandshakes, hs, txOffloaded, rxOffloaded,
           sockCfg, act, remain, written, n, err, spliceReq, streamLen,
           sockTaken, pipe, file, eagains, b, rec, ret, mmap, res >>

connVars == << txOffloaded, rxOffloaded, sockCfg >>
procVars == << kTLSEnabled, caps, isTCP >>
spliceVars == << remain, written, spliceReq, streamLen, sockTaken, pipe, file, mmap, res >>

None == "none"

\* the kernels the process may run on: (major, minor) around each threshold
Kernels ==
    { <<4, 12>>, <<4, 13>>, <<4, 17>>, <<5, 1>>, <<5, 11>>, <<5, 19>>, <<6, 0>> }

\* a number below 100 in decimal
Itoa(x) ==
    IF x < 10 THEN << DigitChars[x + 1] >>
    ELSE << DigitChars[(x \div 10) + 1], DigitChars[(x % 10) + 1] >>

\* the release string of kernel major.minor: "major.minor." and the patch
\* level with its suffix
Release(major, minor, patch) ==
    Itoa(major) \o << "." >> \o Itoa(minor) \o << "." >> \o patch

\* lengths of the key material a handshake may hand over
KeyLens == {16, 17, 32}
IVLens == {4, 5, 12}

CipherSuites ==
    SuitesAES128TLS12 \cup SuitesAES256TLS12 \cup SuitesCHACHA20TLS12
      \cup { "TLS_AES_128_GCM_SHA256", "TLS_AES_256_GCM_SHA384",
             "TLS_CHACHA20_POLY1305_SHA256", "TLS_RSA_WITH_AES_128_CBC_SHA" }

Material(inKeyLen, outKeyLen, inIVLen, outIVLen) ==
    [inKey |-> Bytes(inKeyLen, 10), outKey |-> Bytes(outKeyLen, 50),
     inIV |-> Bytes(inIVLen, 100), outIV |-> Bytes(outIVLen, 150),
     inSeq |-> Zeros(8), outSeq |-> Zeros(8)]

\* no handshake output is held
NoHs == [suite |-> None, m |-> Material(0, 0, 0, 0)]

NoAct == [err |-> nil, calls |-> << >>, tx |-> FALSE, rx |-> FALSE,
          log |-> << >>]
NoRet == [n |-> 0, err |-> nil, handled |-> FALSE]
NoMmap == [offset |-> 0, size0 |-> 0, size |-> 0, start |-> 0, end |-> 0]
NoRes == [pipes |-> 0, closedR |-> 0, closedW |-> 0, mmaps |-> 0, munmaps |-> 0]
NoRec == [typ |-> 0, n |-> 0, err |-> nil, payload |-> << >>]

\* unix.Pipe succeeded: the pipe's two ends are open
PipeMade(r) == [r EXCEPT !.pipes = @ + 1]

\* destroyTempPipe closing the read end alone
destroyTempPipeReadEnd(r) == [r EXCEPT !.closedR = @ + 1]

\* destroyTempPipe, deferred at line 230: both ends closed, the second
\* whatever the first close returned
destroyTempPipe(r) == [r EXCEPT !.closedR = @ + 1, !.closedW = @ + 1]

\* unix.Mmap succeeded, and unix.Munmap of that mapping, deferred at line 180
Mmapped(r) == [r EXCEPT !.mmaps = @ + 1]
Munmap(r) == [r EXCEPT !.munmaps = @ + 1]

\* the variables of the operations, as a new operation finds them
ResetAct == act' = NoAct
ResetSplice ==
    /\ remain' = 0 /\ written' = 0
    /\ spliceReq' = 0 /\ streamLen' = 0 /\ sockTaken' = 0
    /\ pipe' = << >> /\ file' = << >> /\ mmap' = NoMmap /\ res' = NoRes
ResetRec == b' = << >> /\ rec' = NoRec
OpReset ==
    /\ ResetAct /\ ResetSplice /\ ResetRec
    /\ n' = 0 /\ err' = nil /\ eagains' = 0 /\ ret' = NoRet

Init ==
    /\ kTLSEnabled \in BOOLEAN
    /\ \E statOk \in BOOLEAN, unameOk \in BOOLEAN, kv \in Kernels :
          LET r == kTLSInit(statOk, kTLSEnabled, unameOk,
                            Release(kv[1], kv[2], << "0" >>))
          IN  ~r.panic /\ caps = r.caps
    /\ isTCP \in BOOLEAN
    /\ pc = "ready" /\ op = None /\ nHandshakes = 0 /\ hs = NoHs
    /\ txOffloaded = FALSE /\ rxOffloaded = FALSE
    /\ sockCfg = [tx |-> FALSE, rx |-> FALSE]
    /\ act = NoAct
    /\ remain = 0 /\ written = 0 /\ n = 0 /\ err = nil
    /\ spliceReq = 0 /\ streamLen = 0 /\ sockTaken = 0
    /\ pipe = << >> /\ file = << >>
    /\ eagains = 0 /\ b = << >> /\ rec = NoRec /\ ret = NoRet
    /\ mmap = NoMmap /\ res = NoRes

\* the caller has taken what the operation returned; the connection is free
\* for its next operation (one operation at a time on a connection)
Continue ==
    /\ pc = "returned"
    /\ pc' = "ready" /\ op' = None /\ hs' = NoHs
    /\ OpReset
    /\ UNCHANGED << procVars, connVars, nHandshakes >>

(***************************************************************************)
(* Activation.                                                             *)
(***************************************************************************)
\* the handshake (outside this code) negotiates a suite and derives keys
Handshake ==
    /\ pc = "ready" /\ nHandshakes < MaxHandshakes
    /\ \E suite \in CipherSuites, ik \in KeyLens, ok \in KeyLens,
          ii \in IVLens, oi \in IVLens :
           hs' = [suite |-> suite, m |-> Material(ik, ok, ii, oi)]
    /\ pc' = "handshaken" /\ op' = "enableKernelTLS"
    /\ nHandshakes' = nHandshakes + 1
    /\ OpReset
    /\ UNCHANGED << procVars, connVars >>

\* whether the kernel accepted the option opt among calls
Accepted(calls, opt) ==
    \E i \in 1..Len(calls) :
        calls[i].level = "SOL_TLS" /\ calls[i].opt = opt /\ calls[i].ok

AllAccepted == [f \in DOMAIN [bindTx |-> 0, optTx |-> 0, zc |-> 0,
                              bindRx |-> 0, optRx |-> 0, nopad |-> 0]
                   |-> TRUE]

\* the socket calls an activation can come to make: those whose failure,
\* all others succeeding, changes what it does
AnswersAsked(suite, m) ==
    { f \in DOMAIN AllAccepted :
        enableKernelTLS(caps, isTCP, suite, m, [AllAccepted EXCEPT ![f] = FALSE])
          # enableKernelTLS(caps, isTCP, suite, m, AllAccepted) }

\* Conn.enableKernelTLS, called once the handshake has the keys; the kernel
\* answers each call that can be made, the others are left accepted
EnableKernelTLS ==
    /\ pc = "handshaken"
    /\ \E x \in [AnswersAsked(hs.suite, hs.m) -> BOOLEAN] :
          LET k == [f \in DOMAIN AllAccepted |->
                        IF f \in DOMAIN x THEN x[f] ELSE TRUE]
              r == enableKernelTLS(caps, isTCP, hs.suite, hs.m, k)
          IN  /\ act' = r
              /\ txOffloaded' = (txOffloaded \/ r.tx)
              /\ rxOffloaded' = (rxOffloaded \/ r.rx)
              /\ sockCfg' = [tx |-> sockCfg.tx \/ Accepted(r.calls, TLS_TX),
                             rx |-> sockCfg.rx \/ Accepted(r.calls, TLS_RX)]
              /\ ret' = [n |-> 0, err |-> r.err, handled |-> TRUE]
    /\ pc' = "returned"
    /\ UNCHANGED << procVars, mmap, res, op, nHandshakes, hs, remain, written, n, err,
                    spliceReq, streamLen, sockTaken, pipe, file, eagains,
                    b, rec >>

(***************************************************************************)
(* Conn.WriteTo -> Conn.spliceToFile (src/ktls_linux.go).  The peer's      *)
(* stream is the bytes 1, 2, ... streamLen; the pipe and the file hold the *)
(* bytes they were given, in order.  A system call that fails returns -1.  *)
(***************************************************************************)
HandshakeDone == nHandshakes >= 1

TransferSizes == 0..MaxRemain
StreamLens == 0..(MaxRemain + 1)

\* the bytes from+1 .. from+k of the peer's stream
Stream(from, k) == [i \in 1..k |-> from + i]

\* WriteTo with a *LimitedWriter over an *os.File: spliceToFile up to its
\* first socket->pipe splice.  Without a TCP connection or a pipe it
\* returns handled = false and WriteTo copies through user space.
SpliceStart ==
    /\ pc = "ready" /\ HandshakeDone
    /\ op' = "spliceToFile"
    /\ ResetAct /\ ResetRec
    /\ err' = nil /\ eagains' = 0 /\ written' = 0
    /\ sockTaken' = 0 /\ pipe' = << >> /\ file' = << >> /\ mmap' = NoMmap
    /\ \E req \in TransferSizes, slen \in StreamLens, pipeOk \in BOOLEAN :
          IF ~isTCP \/ ~pipeOk
          THEN /\ pc' = "returned"
               /\ remain' = 0 /\ spliceReq' = 0 /\ streamLen' = 0 /\ n' = 0
               /\ ret' = NoRet
          ELSE /\ pc' = "sock"
               /\ remain' = req /\ spliceReq' = req /\ streamLen' = slen
               /\ n' = maxSpliceSize
               /\ ret' = NoRet
    \* lines 225-230: the pipe exists once unix.Pipe succeeded
    /\ res' = IF pc' = "sock" THEN PipeMade(NoRes) ELSE NoRes
    /\ UNCHANGED << procVars, connVars, nHandshakes, hs >>

\* lines 282-285: the return of spliceToFile (the pipe is destroyed)
SpliceReturns(w, e) ==
    /\ ret' = [n |-> w, err |-> e, handled |-> TRUE]
    /\ pc' = "returned"

\* lines 239-257: one socket->pipe splice and the accounting after it.
\* The kernel moves k bytes, or reports end of stream (0), would-block or
\* an error (-1 in both cases); a splice of length 0 returns 0 at once.
SpliceSockToPipe ==
    /\ pc = "sock"
    /\ LET len == Min(maxSpliceSize, remain)
           avail == streamLen - sockTaken
       IN  \/ \E k \in 0..Min(len, avail) :
                /\ k = 0 => (len = 0 \/ avail = 0)
                /\ n' = k /\ remain' = remain - k /\ written' = written + k
                /\ err' = nil
                /\ pipe' = pipe \o Stream(sockTaken, k)
                /\ sockTaken' = sockTaken + k
                /\ pc' = "bump"
                /\ UNCHANGED << eagains, ret >>
           \/ /\ len > 0 /\ eagains < MaxEagain
              /\ n' = -1 /\ remain' = remain - (-1) /\ written' = written + (-1)
              /\ err' = nil
              /\ eagains' = eagains + 1
              /\ pc' = "parked"
              /\ UNCHANGED << pipe, sockTaken, ret >>
           \/ /\ len > 0
              /\ n' = -1 /\ remain' = remain - (-1) /\ written' = written + (-1)
              /\ err' = EIO
              /\ SpliceReturns(written + (-1), EIO)
              /\ UNCHANGED << pipe, sockTaken, eagains >>
    /\ UNCHANGED << procVars, mmap, connVars, op, nHandshakes, hs, act,
                    spliceReq, streamLen, file, b, rec >>
    \* the deferred destroyTempPipe runs when spliceToFile returns
    /\ res' = IF pc' = "returned" THEN destroyTempPipe(res) ELSE res

\* sc.Read after the callback returned false: the socket becomes readable
\* and the callback runs again from the top of its loop
SpliceResume ==
    /\ pc = "parked" /\ op = "spliceToFile"
    /\ pc' = "sock"
    /\ UNCHANGED << procVars, connVars, op, nHandshakes, hs, act, spliceVars,
                    n, err, eagains, b, rec, ret >>

\* sc.Read after the callback returned false: the socket's deadline passes,
\* sc.Read returns rerr and spliceToFile returns it
SpliceDeadline ==
    /\ pc = "parked" /\ op = "spliceToFile"
    /\ err' = (IF err = nil THEN ErrDeadline ELSE err)
    /\ SpliceReturns(written, err')
    /\ UNCHANGED << procVars, connVars, op, nHandshakes, hs, act, remain,
                    written, spliceReq, streamLen, sockTaken, pipe, file, mmap,
                    n, eagains, b, rec >>
    \* the deferred destroyTempPipe runs when spliceToFile returns
    /\ res' = IF pc' = "returned" THEN destroyTempPipe(res) ELSE res

\* SplicePipeToFile without "goto bump": the callback ends after a short
\* write as after a full one
SplicePipeToFileOnce ==
    /\ pc = "bump"
    /\ \/ \E m \in 0..Min(n, Len(pipe)) :
            /\ m = 0 => n = 0
            /\ file' = file \o SubSeq(pipe, 1, m)
            /\ pipe' = SubSeq(pipe, m + 1, Len(pipe))
            /\ n' = n
            /\ IF remain <= 0
               THEN SpliceReturns(written, err)
               ELSE pc' = "sock" /\ UNCHANGED ret
            /\ UNCHANGED err
       \/ \E e \in {EAGAIN, EIO} :
            /\ err' = e
            /\ SpliceReturns(written, e)
            /\ UNCHANGED << n, pipe, file >>
    /\ UNCHANGED << procVars, mmap, connVars, op, nHandshakes, hs, act,
                    remain, written, spliceReq, streamLen, sockTaken,
                    eagains, b, rec >>
    \* the deferred destroyTempPipe runs when spliceToFile returns
    /\ res' = IF pc' = "returned" THEN destroyTempPipe(res) ELSE res

\* lines 260-278: one pipe->file splice at the label bump, and what follows
\* it: a short write goes back to bump with n reduced, a full one leaves the
\* callback and the loop ends when remain <= 0
SplicePipeToFile ==
    /\ pc = "bump"
    /\ \/ \E m \in 0..Min(n, Len(pipe)) :
            /\ m = 0 => n = 0
            /\ file' = file \o SubSeq(pipe, 1, m)
            /\ pipe' = SubSeq(pipe, m + 1, Len(pipe))
            /\ IF m < n
               THEN /\ n' = n - m
                    /\ pc' = "bump"
                    /\ UNCHANGED ret
               ELSE /\ n' = n
                    /\ IF remain <= 0
                       THEN SpliceReturns(written, err)
                       ELSE pc' = "sock" /\ UNCHANGED ret
            /\ UNCHANGED err
       \/ \E e \in {EAGAIN, EIO} :
            /\ err' = e
            /\ SpliceReturns(written, e)
            /\ UNCHANGED << n, pipe, file >>
    /\ UNCHANGED << procVars, mmap, connVars, op, nHandshakes, hs, act,
                    remain, written, spliceReq, streamLen, sockTaken,
                    eagains, b, rec >>
    \* the deferred destroyTempPipe runs when spliceToFile returns
    /\ res' = IF pc' = "returned" THEN destroyTempPipe(res) ELSE res

\* Conn.ReadFrom, lines 144-149: after the handshake, io.Copy(c.conn, r)
\* writes the reader's bytes to the raw connection, k of them before the
\* reader ends or the connection fails
ReadFrom ==
    /\ pc = "ready" /\ HandshakeDone
    /\ op' = "ReadFrom" /\ pc' = "returned"
    /\ ResetAct /\ ResetSplice /\ ResetRec
    /\ err' = nil /\ eagains' = 0
    /\ \E k \in TransferSizes, e \in {nil, EIO} :
          /\ n' = k
          /\ ret' = [n |-> k, err |-> e, handled |-> TRUE]
    /\ UNCHANGED << procVars, connVars, nHandshakes, hs >>

(***************************************************************************)
(* Conn.writeToFile (src/ktls_linux.go): the file is grown to              *)
(* offset + remain if it is shorter, mapped, and c.Read fills the mapping  *)
(* from offset through a window [start, end).  file is the mapped region   *)
(* bytes[offset : offset+remain]; 0 marks a byte c.Read has not written.   *)
(***************************************************************************)
Offsets == 0..MaxOffset
FileSizes == 0..(MaxRemain + 1)

\* the system calls before the loop that can fail
SetupFailures == {"none", "seek", "stat", "truncate", "mmap"}

\* lines 154-186: up to the first c.Read.  Each failure before the loop
\* returns handled = false.
WriteToFileStart ==
    /\ pc = "ready" /\ HandshakeDone
    /\ op' = "writeToFile"
    /\ ResetAct /\ ResetRec
    /\ err' = nil /\ eagains' = 0 /\ written' = 0 /\ n' = 0
    /\ sockTaken' = 0 /\ pipe' = << >>
    /\ ret' = NoRet
    /\ \E req \in TransferSizes, slen \in StreamLens, offset \in Offsets,
          size \in FileSizes, fail \in SetupFailures :
          LET grow == offset + req > size
              truncated == req > 0 /\ grow /\ fail \in {"none", "mmap"}
              size1 == IF truncated THEN offset + req ELSE size
          IN  /\ req <= 0 => fail = "none"
              /\ fail = "truncate" => grow
              /\ remain' = req /\ spliceReq' = req
              /\ IF req <= 0 \/ fail # "none"
                 THEN /\ pc' = "returned"
                      /\ streamLen' = 0 /\ file' = << >>
                      /\ mmap' = [offset |-> offset, size0 |-> size,
                                  size |-> size1, start |-> 0, end |-> 0]
                 ELSE /\ pc' = "mmread"
                      /\ streamLen' = slen /\ file' = Zeros(req)
                      /\ mmap' = [offset |-> offset, size0 |-> size,
                                  size |-> size1, start |-> 0,
                                  end |-> Min(maxBufferSize, req)]
    \* lines 175-180: the mapping exists once unix.Mmap succeeded
    /\ res' = IF pc' = "mmread" THEN Mmapped(NoRes) ELSE NoRes
    /\ UNCHANGED << procVars, connVars, nHandshakes, hs >>

\* c.Read writing at the head of the mapping whatever start is
ReadIntoHead(bytes, start, k, from) ==
    [i \in 1..Len(bytes) |-> IF i <= k THEN from + i ELSE bytes[i]]

\* c.Read writing k bytes of the stream at bytes[start : start+k]
ReadInto(bytes, start, k, from) ==
    [i \in 1..Len(bytes) |->
        IF start < i /\ i <= start + k THEN from + (i - start) ELSE bytes[i]]

\* MmapRead without "end += int64(n)": the window's end stays where the
\* first read had it
MmapReadEndKept ==
    /\ pc = "mmread"
    /\ \E k \in 0..Min(mmap.end - mmap.start, streamLen - sockTaken),
          e \in {nil, EOF, EIO} :
          /\ (e = nil /\ k = 0) => eagains < MaxEagain
          /\ e = EOF => k = streamLen - sockTaken
          /\ n' = k /\ err' = e
          /\ eagains' = IF e = nil /\ k = 0 THEN eagains + 1 ELSE eagains
          /\ file' = ReadInto(file, mmap.start, k, sockTaken)
          /\ sockTaken' = sockTaken + k
          /\ IF e # nil
             THEN /\ ret' = [n |-> mmap.start + k, err |-> e, handled |-> TRUE]
                  /\ pc' = "returned"
                  /\ UNCHANGED mmap
             ELSE IF mmap.start + k >= remain
             THEN /\ ret' = [n |-> remain, err |-> nil, handled |-> TRUE]
                  /\ pc' = "returned"
                  /\ mmap' = [mmap EXCEPT !.start = mmap.start + k]
             ELSE /\ pc' = "mmread"
                  /\ mmap' = [mmap EXCEPT !.start = mmap.start + k]
                  /\ UNCHANGED ret
    /\ UNCHANGED << procVars, connVars, op, nHandshakes, hs, act,
                    remain, written, spliceReq, streamLen, pipe, b, rec >>
    /\ res' = IF pc' = "returned" THEN Munmap(res) ELSE res

\* lines 188-205: one c.Read(bytes[start:end]) and what follows it.  c.Read
\* gives k bytes, with or without an error.
MmapRead ==
    /\ pc = "mmread"
    /\ \E k \in 0..Min(mmap.end - mmap.start, streamLen - sockTaken),
          e \in {nil, EOF, EIO} :
          /\ (e = nil /\ k = 0) => eagains < MaxEagain
          /\ e = EOF => k = streamLen - sockTaken
          /\ n' = k /\ err' = e
          /\ eagains' = IF e = nil /\ k = 0 THEN eagains + 1 ELSE eagains
          /\ file' = ReadInto(file, mmap.start, k, sockTaken)
          /\ sockTaken' = sockTaken + k
          /\ IF e # nil
             THEN /\ ret' = [n |-> mmap.start + k, err |-> e, handled |-> TRUE]
                  /\ pc' = "returned"
                  /\ UNCHANGED mmap
             ELSE IF mmap.start + k >= remain
             THEN /\ ret' = [n |-> remain, err |-> nil, handled |-> TRUE]
                  /\ pc' = "returned"
                  /\ mmap' = [mmap EXCEPT !.start = mmap.start + k]
             ELSE /\ pc' = "mmread"
                  /\ mmap' = [mmap EXCEPT !.start = mmap.start + k,
                                          !.end = Min(mmap.end + k, remain)]
                  /\ UNCHANGED ret
    /\ UNCHANGED << procVars, connVars, op, nHandshakes, hs, act,
                    remain, written, spliceReq, streamLen, pipe, b, rec >>
    \* the deferred unix.Munmap runs when writeToFile returns
    /\ res' = IF pc' = "returned" THEN Munmap(res) ELSE res

(***************************************************************************)
(* Record-type I/O (src/ktls_linux.go): ktlsReadDataFromRecord over        *)
(* ktlsReadRecord, and ktlsSendCtrlMessage.                                *)
(***************************************************************************)
ErrUnknownSize == "unknown size received"
ErrCmsgLevel == "unsupported cmsg level"
ErrCmsgType == "unsupported cmsg type"
ErrAlertShort == "ktls alert payload too short"
ErrUnsupportedAlert == "unsupported ktls alert type"
ErrUnsupportedRecordType == "unsupported ktls record type"

\* what the kernel may put into the control message and the payload
CmsgLevels == {SOL_TLS, 0}
CmsgTypes == {TLS_GET_RECORD_TYPE, 0}
RecordTypes == {recordTypeAlert, 22, recordTypeApplicationData}
PayloadBytes == {0, 1}
StaleBuffers == { [i \in 1..BufLen |-> 0], [i \in 1..BufLen |-> 1] }

Record(typ, k, e) == [typ |-> typ, n |-> k, err |-> e]

\* lines 421-449 of ktlsReadRecord: from the return of rwc.Read (err0) with
\* the callback's n and err to the function's result
ktlsReadRecord(k, e, err0, cmsg) ==
    LET e1 == IF err0 # nil THEN err0 ELSE e
    IN  IF e1 # nil THEN Record(0, IF k = -1 THEN 0 ELSE k, e1)
        ELSE IF k < 0 THEN Record(0, 0, ErrUnknownSize)
        ELSE IF k = 0 THEN Record(0, 0, nil)
        ELSE IF cmsg.level # SOL_TLS THEN Record(0, 0, ErrCmsgLevel)
        ELSE IF cmsg.type # TLS_GET_RECORD_TYPE THEN Record(0, 0, ErrCmsgType)
        ELSE Record(cmsg.typ, k, nil)

\* ktlsReadDataFromRecord looking at b[0] where the code looks at b[1]
ktlsReadDataFromRecordFirstByte(r, buf) ==
    IF r.err # nil THEN [n |-> r.n, err |-> r.err]
    ELSE IF r.typ = recordTypeAlert
    THEN IF r.n < 2 THEN [n |-> 0, err |-> ErrAlertShort]
         ELSE IF buf[1] = alertCloseNotify THEN [n |-> 0, err |-> EOF]
         ELSE [n |-> 0, err |-> ErrUnsupportedAlert]
    ELSE IF r.typ = recordTypeApplicationData THEN [n |-> r.n, err |-> nil]
    ELSE [n |-> 0, err |-> ErrUnsupportedRecordType]

\* ktlsReadDataFromRecord, given what ktlsReadRecord returned and the buffer
\* (buf[2] is the code's b[1])
ktlsReadDataFromRecord(r, buf) ==
    IF r.err # nil THEN [n |-> r.n, err |-> r.err]
    ELSE IF r.typ = recordTypeAlert
    THEN IF r.n < 2 THEN [n |-> 0, err |-> ErrAlertShort]
         ELSE IF buf[2] = alertCloseNotify THEN [n |-> 0, err |-> EOF]
         ELSE [n |-> 0, err |-> ErrUnsupportedAlert]
    ELSE IF r.typ = recordTypeApplicationData THEN [n |-> r.n, err |-> nil]
    ELSE [n |-> 0, err |-> ErrUnsupportedRecordType]

\* the return of ktlsReadDataFromRecord; rec keeps what ktlsReadRecord
\* returned and the payload the kernel wrote for it
ReadReturns(k, e, err0, cmsg, buf, payload) ==
    LET r == ktlsReadRecord(k, e, err0, cmsg)
        d == ktlsReadDataFromRecord(r, buf)
    IN  /\ rec' = [typ |-> r.typ, n |-> r.n, err |-> r.err,
                   payload |-> payload]
        /\ ret' = [n |-> d.n, err |-> d.err, handled |-> TRUE]
        /\ pc' = "returned"

NoCmsg == [level |-> 0, type |-> 0, typ |-> 0]

\* ktlsReadDataFromRecord(c, b) is called: ktlsReadRecord up to rwc.Read
ReadStart ==
    /\ pc = "ready" /\ HandshakeDone /\ isTCP
    /\ op' = "ktlsReadDataFromRecord"
    /\ pc' = "recv"
    /\ b' \in StaleBuffers
    /\ ResetAct /\ ResetSplice
    /\ n' = 0 /\ err' = nil /\ eagains' = 0 /\ rec' = NoRec /\ ret' = NoRet
    /\ UNCHANGED << procVars, connVars, nHandshakes, hs >>

\* the callback of rwc.Read (lines 408-420): one recvmsg
RecvMsg ==
    /\ pc = "recv"
    /\ \/ /\ eagains < MaxEagain
          /\ n' = -1 /\ err' = EAGAIN
          /\ eagains' = eagains + 1
          /\ pc' = "parked"
          /\ UNCHANGED << b, rec, ret >>
       \/ /\ n' = -1 /\ err' = EIO
          /\ ReadReturns(-1, EIO, nil, NoCmsg, b, << >>)
          /\ UNCHANGED << b, eagains >>
       \/ \E k \in 0..Len(b), level \in CmsgLevels, type \in CmsgTypes,
             typ \in RecordTypes :
            \E payload \in [1..k -> PayloadBytes] :
              LET e == IF k = 0 THEN EOF ELSE nil
                  buf == Copy(b, payload)
              IN  /\ n' = k /\ err' = e
                  /\ b' = buf
                  /\ ReadReturns(k, e, nil,
                                 [level |-> level, type |-> type, typ |-> typ],
                                 buf, payload)
                  /\ UNCHANGED eagains
    /\ UNCHANGED << procVars, connVars, op, nHandshakes, hs, act, spliceVars >>

\* rwc.Read after the callback returned false: readable again, recvmsg anew
ReadResume ==
    /\ pc = "parked" /\ op = "ktlsReadDataFromRecord"
    /\ pc' = "recv"
    /\ UNCHANGED << procVars, connVars, op, nHandshakes, hs, act, spliceVars,
                    n, err, eagains, b, rec, ret >>

\* rwc.Read after the callback returned false: the deadline passes, err0
ReadDeadline ==
    /\ pc = "parked" /\ op = "ktlsReadDataFromRecord"
    /\ err' = ErrDeadline
    /\ ReadReturns(n, err, ErrDeadline, NoCmsg, b, << >>)
    /\ UNCHANGED << procVars, connVars, op, nHandshakes, hs, act, spliceVars,
                    n, eagains, b >>

\* the return of ktlsSendCtrlMessage (lines 552-557)
SendReturns(k, e, err0) ==
    /\ ret' = [n |-> k, err |-> IF err0 # nil THEN err0 ELSE e,
               handled |-> TRUE]
    /\ pc' = "returned"

\* ktlsSendCtrlMessage(c, recordTypeAlert, b) is called, up to rwc.Write
SendStart ==
    /\ pc = "ready" /\ HandshakeDone /\ isTCP
    /\ op' = "ktlsSendCtrlMessage"
    /\ pc' = "send"
    /\ b' \in { << 1, alertCloseNotify >>, << 2, 40 >> }
    /\ ResetAct /\ ResetSplice
    /\ n' = 0 /\ err' = nil /\ eagains' = 0 /\ rec' = NoRec /\ ret' = NoRet
    /\ UNCHANGED << procVars, connVars, nHandshakes, hs >>

\* the callback of rwc.Write (lines 540-551): one sendmsg
SendMsg ==
    /\ pc = "send"
    /\ \/ /\ eagains < MaxEagain
          /\ n' = -1 /\ err' = EAGAIN
          /\ eagains' = eagains + 1
          /\ pc' = "parked"
          /\ UNCHANGED ret
       \/ /\ n' = -1 /\ err' = EIO
          /\ SendReturns(-1, EIO, nil)
          /\ UNCHANGED eagains
       \/ \E k \in 1..Len(b) :
            /\ n' = k /\ err' = nil
            /\ SendReturns(k, nil, nil)
            /\ UNCHANGED eagains
    /\ UNCHANGED << procVars, connVars, op, nHandshakes, hs, act, spliceVars,
                    b, rec >>

\* rwc.Write after the callback returned false: writable again
SendResume ==
    /\ pc = "parked" /\ op = "ktlsSendCtrlMessage"
    /\ pc' = "send"
    /\ UNCHANGED << procVars, connVars, op, nHandshakes, hs, act, spliceVars,
                    n, err, eagains, b, rec, ret >>

\* rwc.Write after the callback returned false: the deadline passes, err0
SendDeadline ==
    /\ pc = "parked" /\ op = "ktlsSendCtrlMessage"
    /\ err' = ErrDeadline
    /\ SendReturns(n, err, ErrDeadline)
    /\ UNCHANGED << procVars, connVars, op, nHandshakes, hs, act, spliceVars,
                    n, eagains, b, rec >>

(***************************************************************************)
(* The cipher wire encoders on their own: one call of an encoder on a      *)
(* fresh socket, with key, IV and sequence of every length around the      *)
(* required ones.                                                          *)
(***************************************************************************)
EncKeyLens == {15, 16, 17, 31, 32, 33}
EncIVLens == {3, 4, 5, 11, 12, 13}
EncSeqLens == {7, 8, 9}

EncoderInputs ==
    { [family |-> f, version |-> v, opt |-> o, skip |-> sk,
       key |-> Bytes(kl, 10), iv |-> Bytes(il, 100), seq |-> Bytes(sl, 200)] :
        f \in Families, v \in {VersionTLS12, VersionTLS13},
        o \in {TLS_TX, TLS_RX}, sk \in BOOLEAN,
        kl \in EncKeyLens, il \in EncIVLens, sl \in EncSeqLens }

InitEnc ==
    /\ kTLSEnabled = TRUE /\ caps = NoCaps /\ isTCP = TRUE
    /\ pc = "encoder" /\ op = "encoder" /\ nHandshakes = 0
    /\ hs \in EncoderInputs
    /\ txOffloaded = FALSE /\ rxOffloaded = FALSE
    /\ sockCfg = [tx |-> FALSE, rx |-> FALSE]
    /\ act = NoAct
    /\ remain = 0 /\ written = 0 /\ n = 0 /\ err = nil
    /\ spliceReq = 0 /\ streamLen = 0 /\ sockTaken = 0
    /\ pipe = << >> /\ file = << >>
    /\ eagains = 0 /\ b = << >> /\ rec = NoRec /\ ret = NoRet
    /\ mmap = NoMmap /\ res = NoRes

\* one call of ktlsEnableAES128GCM, ktlsEnableAES256GCM or
\* ktlsEnableCHACHA20POLY1305; the kernel answers the calls it makes
EncoderCall ==
    /\ pc = "encoder"
    /\ \E bindOk \in BOOLEAN, optOk \in BOOLEAN :
          LET r == Encoder(hs.family, hs.version, hs.opt, hs.skip,
                           hs.key, hs.iv, hs.seq, bindOk, optOk)
          IN  /\ act' = [NoAct EXCEPT !.err = r.err, !.calls = r.calls]
              /\ sockCfg' = [tx |-> Accepted(r.calls, TLS_TX),
                             rx |-> Accepted(r.calls, TLS_RX)]
              /\ ret' = [n |-> 0, err |-> r.err, handled |-> TRUE]
    /\ pc' = "returned"
    /\ UNCHANGED << procVars, mmap, res, op, nHandshakes, hs, txOffloaded, rxOffloaded,
                    remain, written, n, err, spliceReq, streamLen, sockTaken,
                    pipe, file, eagains, b, rec >>

NextEnc == EncoderCall

SpecEnc == InitEnc /\ [][NextEnc]_vars

(***************************************************************************)
(* The capability probe on its own: init run once against what the host    *)
(* answers, hs holding those answers                                       *)
(***************************************************************************)
\* kernel versions around every threshold, and those whose minor repeats
\* the major
ProbeVersions ==
    { << 3, 10 >>, << 4, 4 >>, << 4, 12 >>, << 4, 13 >>, << 4, 16 >>, << 4, 17 >>,
      << 5, 0 >>, << 5, 1 >>, << 5, 5 >>, << 5, 10 >>, << 5, 11 >>, << 5, 15 >>,
      << 5, 18 >>, << 5, 19 >>, << 6, 0 >>, << 6, 1 >>, << 6, 6 >> }

\* patch levels with their suffixes: "0", "8-a", "0-2.f"
Patches ==
    { << "0" >>, << "8", "-", "a" >>, << "0", "-", "2", ".", "f" >> }

\* release strings that are not major.minor.patch: "", "5", "5.15", "x.1.0",
\* "5.x.0"
OddReleases ==
    { << >>, << "5" >>, << "5", ".", "1", "5" >>,
      << "x", ".", "1", ".", "0" >>, << "5", ".", "x", ".", "0" >> }

ProbeInputs ==
    { [statOk |-> s, unameOk |-> u, std |-> TRUE, major |-> v[1], minor |-> v[2],
       release |-> Release(v[1], v[2], p)] :
         s \in BOOLEAN, u \in BOOLEAN, v \in ProbeVersions, p \in Patches }
    \cup
    { [statOk |-> s, unameOk |-> u, std |-> FALSE, major |-> 0, minor |-> 0,
       release |-> r] : s \in BOOLEAN, u \in BOOLEAN, r \in OddReleases }

InitProbe ==
    /\ kTLSEnabled \in BOOLEAN /\ caps = NoCaps /\ isTCP = TRUE
    /\ pc = "probe" /\ op = "init" /\ nHandshakes = 0
    /\ hs \in ProbeInputs
    /\ txOffloaded = FALSE /\ rxOffloaded = FALSE
    /\ sockCfg = [tx |-> FALSE, rx |-> FALSE]
    /\ act = NoAct
    /\ remain = 0 /\ written = 0 /\ n = 0 /\ err = nil
    /\ spliceReq = 0 /\ streamLen = 0 /\ sockTaken = 0
    /\ pipe = << >> /\ file = << >>
    /\ eagains = 0 /\ b = << >> /\ rec = NoRec /\ ret = NoRet
    /\ mmap = NoMmap /\ res = NoRes

\* init; a panic in it ends the process
ProbeInit ==
    /\ pc = "probe"
    /\ LET r == kTLSInit(hs.statOk, kTLSEnabled, hs.unameOk, hs.release)
       IN  /\ caps' = r.caps
           /\ pc' = IF r.panic THEN "crashed" ELSE "returned"
    /\ UNCHANGED << kTLSEnabled, isTCP, op, nHandshakes, hs, txOffloaded,
                    rxOffloaded, sockCfg, act, remain, written, n, err,
                    spliceReq, streamLen, sockTaken, pipe, file, eagains, b,
                    rec, ret, mmap, res >>

NextProbe == ProbeInit

SpecProbe == InitProbe /\ [][NextProbe]_vars

Next ==
    \/ Continue
    \/ Handshake
    \/ EnableKernelTLS
    \/ SpliceStart
    \/ SpliceSockToPipe
    \/ SpliceResume
    \/ SpliceDeadline
    \/ SplicePipeToFile
    \/ WriteToFileStart
    \/ MmapRead
    \/ ReadFrom
    \/ ReadStart
    \/ RecvMsg
    \/ ReadResume
    \/ ReadDeadline
    \/ SendStart
    \/ SendMsg
    \/ SendResume
    \/ SendDeadline

Spec == Init /\ [][Next]_vars

(***************************************************************************)
(* What the claims speak of.                                               *)
(***************************************************************************)
Elems(q) == { q[i] : i \in 1..Len(q) }

ActivationReturned == pc = "returned" /\ op = "enableKernelTLS"

\* the family and the version enableKernelTLS's table gives a suite
SuiteFamily(suite) ==
    IF suite \in SuitesAES128TLS12 \cup {"TLS_AES_128_GCM_SHA256"}
    THEN "AES128GCM"
    ELSE IF suite \in SuitesAES256TLS12 \cup {"TLS_AES_256_GCM_SHA384"}
    THEN "AES256GCM"
    ELSE IF suite \in SuitesCHACHA20TLS12 \cup {"TLS_CHACHA20_POLY1305_SHA256"}
    THEN "CHACHA20POLY1305"
    ELSE None

SuiteVersion(suite) ==
    IF suite \in {"TLS_AES_128_GCM_SHA256", "TLS_AES_256_GCM_SHA384",
                  "TLS_CHACHA20_POLY1305_SHA256"}
    THEN VersionTLS13 ELSE VersionTLS12

\* the lengths a family requires of key, IV and sequence number
ReqKeyLen(family) ==
    CASE family = "AES128GCM" -> kTLS_CIPHER_AES_GCM_128_KEY_SIZE
      [] family = "AES256GCM" -> kTLS_CIPHER_AES_GCM_256_KEY_SIZE
      [] family = "CHACHA20POLY1305" -> kTLS_CIPHER_CHACHA20_POLY1305_KEY_SIZE

ReqIVLen(family, version) ==
    CASE family = "AES128GCM" ->
           IF version = VersionTLS12 THEN kTLS_CIPHER_AES_GCM_128_SALT_SIZE
           ELSE kTLS_CIPHER_AES_GCM_128_SALT_SIZE
                  + kTLS_CIPHER_AES_GCM_128_IV_SIZE
      [] family = "AES256GCM" ->
           IF version = VersionTLS12 THEN kTLS_CIPHER_AES_GCM_256_SALT_SIZE
           ELSE kTLS_CIPHER_AES_GCM_256_SALT_SIZE
                  + kTLS_CIPHER_AES_GCM_256_IV_SIZE
      [] family = "CHACHA20POLY1305" -> kTLS_CIPHER_CHACHA20_POLY1305_IV_SIZE

ReqSeqLen(family) ==
    CASE family = "AES128GCM" -> kTLS_CIPHER_AES_GCM_128_REC_SEQ_SIZE
      [] family = "AES256GCM" -> kTLS_CIPHER_AES_GCM_256_REC_SEQ_SIZE
      [] family = "CHACHA20POLY1305" ->
           kTLS_CIPHER_CHACHA20_POLY1305_REC_SEQ_SIZE

LengthErrors == {ErrKeyLen, ErrIVLen, ErrSeqLen}

\* the TX encoder's ULP bind failed (the TX encoder never skips the bind,
\* so its bind is the activation's first call)
TxBindFailed(a) ==
    /\ a.calls # << >> /\ a.log # << >>
    /\ a.log[1] \in {LogTxError, LogTxEnabled}
    /\ a.calls[1].level = "SOL_TCP" /\ ~a.calls[1].ok

\* the TX encoder of the activation met a failure: it returned an error, or
\* its ULP bind failed
TxEncoderFailed(a) == LogTxError \in Elems(a.log) \/ TxBindFailed(a)

(***************************************************************************)
(* C1: each direction's offload flag only ever goes from false to true and *)
(* is never reset, over activations, record reads, tagged writes and bulk  *)
(* transfers; and a flag is true only if the kernel accepted that          *)
(* direction's cipher option on the connection's socket.                   *)
(***************************************************************************)
C1_FlagsMonotonicAndBacked ==
    [][ /\ txOffloaded => txOffloaded'
        /\ rxOffloaded => rxOffloaded'
        /\ txOffloaded' => sockCfg'.tx
        /\ rxOffloaded' => sockCfg'.rx ]_vars

\* both directions offloaded by the first activation, a second activation
\* has failed, and the flags are still there
C1_Witness ==
    /\ ActivationReturned /\ nHandshakes = 2
    /\ act.err # nil /\ ~act.tx /\ ~act.rx
    /\ txOffloaded /\ rxOffloaded

(***************************************************************************)
(* C2: when the TX encoder fails during an activation (a length error, a   *)
(* failed ULP bind or a rejected cipher option), the activation returns    *)
(* that error, the TX flag is left as it was, and the RX direction is not  *)
(* attempted: no RX socket call, RX flag unchanged.                        *)
(***************************************************************************)
C2_TxFailureSurfaced ==
    [][ (pc = "handshaken" /\ TxEncoderFailed(act'))
          => /\ ret'.err = act'.err /\ act'.err # nil
             /\ TxBindFailed(act') => act'.err = ErrUlp
             /\ txOffloaded' = txOffloaded /\ ~act'.tx
             /\ rxOffloaded' = rxOffloaded /\ ~act'.rx
             /\ sockCfg'.rx = sockCfg.rx
             /\ \A c \in Elems(act'.calls) :
                    c.level = "SOL_TCP" \/ c.opt = TLS_TX ]_vars

(***************************************************************************)
(* C3.  The claim as stated: for every family and both directions, an      *)
(* activation that is attempted with a key or IV of the wrong length       *)
(* returns an error and does not offload the affected direction.           *)
(***************************************************************************)
\* the activation goes as far as trying the directions of this suite
SuiteTried ==
    LET f == SuiteFamily(hs.suite)
        v == SuiteVersion(hs.suite)
    IN  /\ f # None /\ isTCP
        /\ caps.kTLSSupport /\ caps.kTLSSupportTX
        /\ f = "AES128GCM" => caps.kTLSSupportAESGCM128
        /\ f = "AES256GCM" => caps.kTLSSupportAESGCM256
        /\ f = "CHACHA20POLY1305" => caps.kTLSSupportCHACHA20POLY1305
        /\ v = VersionTLS13 => caps.kTLSSupportTLS13TX

RxCapable ==
    /\ caps.kTLSSupportRX
    /\ SuiteVersion(hs.suite) = VersionTLS13 => caps.kTLSSupportTLS13RX

WrongLen(key, iv, seq) ==
    LET f == SuiteFamily(hs.suite)
    IN  \/ Len(key) # ReqKeyLen(f)
        \/ Len(iv) # ReqIVLen(f, SuiteVersion(hs.suite))
        \/ Len(seq) # ReqSeqLen(f)

WrongTx == WrongLen(hs.m.outKey, hs.m.outIV, hs.m.outSeq)
WrongRx == RxCapable /\ WrongLen(hs.m.inKey, hs.m.inIV, hs.m.inSeq)

\* ktlsEnableAES looks at the key length itself and skips the direction
SkippedForKeyLen(key) ==
    /\ SuiteFamily(hs.suite) \in {"AES128GCM", "AES256GCM"}
    /\ Len(key) # ReqKeyLen(SuiteFamily(hs.suite))

EncoderReturned == pc = "returned" /\ op = "encoder"

OffByOne(len, req) == len = req - 1 \/ len = req + 1

ExactKey == Len(hs.key) = ReqKeyLen(hs.family)
ExactIV == Len(hs.iv) = ReqIVLen(hs.family, hs.version)
ExactSeq == Len(hs.seq) = ReqSeqLen(hs.family)

BlobSize(family) ==
    CASE family = "AES128GCM" -> 40
      [] family = "AES256GCM" -> 56
      [] family = "CHACHA20POLY1305" -> 56

CipherCalls(calls) == { c \in Elems(calls) : c.level = "SOL_TLS" }

C4_EncoderLengths ==
    EncoderReturned =>
      /\ (ExactKey /\ ExactIV /\ ExactSeq)
           => /\ act.err \notin LengthErrors \cup {ErrInfoSize}
              /\ act.calls # << >>
              /\ \A c \in CipherCalls(act.calls) :
                     c.opt = hs.opt /\ Len(c.val) = BlobSize(hs.family)
              /\ CipherCalls(act.calls) = {} => act.err = ErrUlp
      /\ (OffByOne(Len(hs.key), ReqKeyLen(hs.family)) /\ ExactIV /\ ExactSeq)
           => (act.err = ErrKeyLen /\ act.calls = << >>)
      /\ (ExactKey /\ OffByOne(Len(hs.iv), ReqIVLen(hs.family, hs.version))
            /\ ExactSeq)
           => (act.err = ErrIVLen /\ act.calls = << >>)
      /\ (ExactKey /\ ExactIV /\ OffByOne(Len(hs.seq), ReqSeqLen(hs.family)))
           => (act.err = ErrSeqLen /\ act.calls = << >>)

\* a TLS 1.3 AES-256-GCM encoder with exact lengths had its blob accepted
C4_Witness ==
    /\ EncoderReturned /\ hs.family = "AES256GCM" /\ hs.version = VersionTLS13
    /\ ExactKey /\ ExactIV /\ ExactSeq
    /\ act.err = nil /\ Accepted(act.calls, hs.opt)
    /\ \E c \in CipherCalls(act.calls) : Len(c.val) = BlobSize(hs.family)

(***************************************************************************)
(* C5: in every encoder, a ULP bind that fails is returned as the          *)
(* encoder's error.                                                        *)
(***************************************************************************)
BindFailed(calls) == \E c \in Elems(calls) : c.level = "SOL_TCP" /\ ~c.ok

C5_BindFailureReturned ==
    (EncoderReturned /\ BindFailed(act.calls)) => act.err = ErrUlp

(***************************************************************************)
(* C6: in the splice bridge, whatever the would-block suspensions, partial *)
(* splices and errors, the remaining-byte counter never increases, the     *)
(* bytes taken from the socket never exceed the requested remain, and a    *)
(* return without error comes exactly when remain is zero, with a byte     *)
(* count equal to the requested remain.                                    *)
(***************************************************************************)
InSplice == op = "spliceToFile" /\ pc \in {"sock", "bump", "parked"}

C6_RemainNeverIncreases ==
    [][ InSplice
          => /\ remain' <= remain
             /\ sockTaken' <= spliceReq
             /\ (pc' = "returned" /\ ret'.err = nil)
                  => (remain' = 0 /\ ret'.n = spliceReq) ]_vars

(***************************************************************************)
(* C7: for a stream of N bytes and a request of N bytes, a transfer cut    *)
(* into chunks with would-block suspensions between them ends as the       *)
(* uninterrupted transfer does: once the N bytes are in the file the       *)
(* transfer has returned N without error, and the file holds the stream.   *)
(***************************************************************************)
C7_ChunkedEqualsWhole ==
    (op = "spliceToFile" /\ spliceReq >= 1 /\ streamLen = spliceReq
       /\ Len(file) = spliceReq)
      => /\ pc = "returned" /\ ret.err = nil /\ ret.n = spliceReq
         /\ file = Stream(0, spliceReq)

(***************************************************************************)
(* C8: when the splice bridge returns an error, the byte count it returns  *)
(* is the number of bytes it delivered to the file: not negative, not more *)
(* than the requested remain, and without the bytes that left the socket   *)
(* but did not reach the file.                                             *)
(***************************************************************************)
C8_ErrorCountIsDelivered ==
    (op = "spliceToFile" /\ pc = "returned" /\ ret.handled /\ ret.err # nil)
      => /\ ret.n = Len(file)
         /\ 0 <= ret.n /\ ret.n <= spliceReq

(***************************************************************************)
(* C9: no operation returns EAGAIN to its caller; on a would-block result  *)
(* the record read, the tagged write and both stages of the splice bridge  *)
(* suspend with their progress as it was and issue the same step again.    *)
(***************************************************************************)
C9_WouldBlockNeverReturned ==
    [][ /\ (pc # "returned" /\ pc' = "returned") => ret'.err # EAGAIN
        /\ (pc # "parked" /\ pc' = "parked")
             => /\ remain' = remain /\ written' = written
                /\ file' = file /\ pipe' = pipe /\ b' = b ]_vars

(***************************************************************************)
(* C10: ktlsReadDataFromRecord classifies what ktlsReadRecord returned: an *)
(* applicationData record gives its n payload bytes unchanged and no       *)
(* error; an alert whose second payload byte is close-notify gives 0 bytes *)
(* and EOF; an alert with another second byte gives an unsupported-alert   *)
(* error; any other record type gives an unsupported-record-type error;    *)
(* an error of ktlsReadRecord is passed through.                           *)
(***************************************************************************)
ReadReturned == pc = "returned" /\ op = "ktlsReadDataFromRecord"

C10_RecordClassification ==
    ReadReturned =>
      /\ rec.err # nil => (ret.err = rec.err /\ ret.n = rec.n)
      /\ (rec.err = nil /\ rec.typ = recordTypeApplicationData)
           => /\ ret.err = nil /\ ret.n = rec.n
              /\ ret.n = Len(rec.payload)
              /\ SubSeq(b, 1, ret.n) = rec.payload
      /\ (rec.err = nil /\ rec.typ = recordTypeAlert /\ rec.n >= 2)
           => /\ ret.n = 0
              /\ ret.err = (IF rec.payload[2] = alertCloseNotify
                            THEN EOF ELSE ErrUnsupportedAlert)
      /\ (rec.err = nil
            /\ rec.typ \notin {recordTypeApplicationData, recordTypeAlert})
           => (ret.n = 0 /\ ret.err = ErrUnsupportedRecordType)

\* an alert record (level 1, close-notify) was read as the end of the stream
C10_Witness ==
    /\ ReadReturned /\ rec.err = nil /\ rec.typ = recordTypeAlert
    /\ rec.payload = << 1, alertCloseNotify >>
    /\ ret.n = 0 /\ ret.err = EOF

(***************************************************************************)
(* C11: when the RX capability is missing, or the version is TLS 1.3 and   *)
(* the TLS 1.3 RX capability is missing, an activation whose TX direction  *)
(* succeeded returns success with the TX flag true, leaves the RX flag     *)
(* false (as it was) and makes no RX configuration call on the socket.     *)
(***************************************************************************)
TxSucceeded(a) == LogTxEnabled \in Elems(a.log)

RxCalls(calls) ==
    { c \in Elems(calls) :
        c.level = "SOL_TLS" /\ c.opt \in {TLS_RX, TLS_RX_EXPECT_NO_PAD} }

C11_RxSkippedSilently ==
    [][ (pc = "handshaken" /\ SuiteFamily(hs.suite) # None /\ ~RxCapable
           /\ TxSucceeded(act'))
          => /\ ret'.err = nil /\ act'.err = nil
             /\ act'.tx /\ txOffloaded'
             /\ ~act'.rx /\ rxOffloaded' = rxOffloaded
             /\ RxCalls(act'.calls) = {}
             /\ sockCfg'.rx = sockCfg.rx ]_vars

\* a TLS 1.3 suite on a kernel with RX but without TLS 1.3 RX: TX offloaded,
\* RX left alone
C11_Witness ==
    /\ ActivationReturned /\ SuiteVersion(hs.suite) = VersionTLS13
    /\ caps.kTLSSupportRX /\ ~caps.kTLSSupportTLS13RX
    /\ TxSucceeded(act) /\ ret.err = nil
    /\ txOffloaded /\ ~rxOffloaded /\ RxCalls(act.calls) = {}

(***************************************************************************)
(* C12: for every recognized cipher suite, if the capability it requires   *)
(* is absent (its cipher-family flag, and for the TLS 1.3 suites also the  *)
(* TLS 1.3 TX flag), the activation returns success, makes no socket call  *)
(* and leaves both offload flags unchanged.                                *)
(***************************************************************************)
FamilySupported(family) ==
    CASE family = "AES128GCM" -> caps.kTLSSupportAESGCM128
      [] family = "AES256GCM" -> caps.kTLSSupportAESGCM256
      [] family = "CHACHA20POLY1305" -> caps.kTLSSupportCHACHA20POLY1305

CapabilityAbsent(suite) ==
    /\ SuiteFamily(suite) # None
    /\ \/ ~FamilySupported(SuiteFamily(suite))
       \/ SuiteVersion(suite) = VersionTLS13 /\ ~caps.kTLSSupportTLS13TX

C12_AbsentCapabilityIsNoOp ==
    [][ (pc = "handshaken" /\ CapabilityAbsent(hs.suite))
          => /\ pc' = "returned" /\ ret'.err = nil
             /\ act'.calls = << >>
             /\ UNCHANGED << txOffloaded, rxOffloaded, sockCfg >> ]_vars

\* an AES-256-GCM suite on a kernel that offloads TX but not AES-256-GCM
C12_Witness ==
    /\ ActivationReturned /\ isTCP
    /\ SuiteFamily(hs.suite) = "AES256GCM"
    /\ caps.kTLSSupport /\ caps.kTLSSupportTX /\ ~caps.kTLSSupportAESGCM256
    /\ ~WrongTx
    /\ ret.err = nil /\ act.calls = << >> /\ ~txOffloaded /\ ~rxOffloaded

(***************************************************************************)
(* C13: when the policy switch is off, every activation returns success at *)
(* once with no state change: no socket call is made and neither offload   *)
(* flag changes, whatever the kernel version, the cipher suite and the key *)
(* material are.                                                           *)
(***************************************************************************)
C13_SwitchOffIsNoOp ==
    [][ (pc = "handshaken" /\ ~kTLSEnabled)
          => /\ pc' = "returned" /\ ret'.err = nil
             /\ act' = NotTried
             /\ UNCHANGED << txOffloaded, rxOffloaded, sockCfg >> ]_vars

\* the switch off, a TLS 1.3 AES-128-GCM suite with good keys on a TCP
\* connection: nothing was done
C13_Witness ==
    /\ ActivationReturned /\ ~kTLSEnabled /\ isTCP
    /\ hs.suite = "TLS_AES_128_GCM_SHA256" /\ ~WrongLen(hs.m.outKey, hs.m.outIV, hs.m.outSeq)
    /\ ret.err = nil /\ act.calls = << >> /\ ~txOffloaded /\ ~rxOffloaded

(***************************************************************************)
(* C14: for every accepted input the wire blob is exactly version, cipher  *)
(* type, IV field, key, salt field, sequence, in that order and with no    *)
(* other bytes.  In the AES-GCM families the salt field is the first 4     *)
(* bytes of iv and the IV field the bytes of iv after them (8 bytes for    *)
(* TLS 1.3, none for TLS 1.2, where the field stays zero); in              *)
(* ChaCha20-Poly1305 the salt field is empty and the IV field is the whole *)
(* 12-byte iv.                                                             *)
(***************************************************************************)
CipherType(family) ==
    CASE family = "AES128GCM" -> kTLS_CIPHER_AES_GCM_128
      [] family = "AES256GCM" -> kTLS_CIPHER_AES_GCM_256
      [] family = "CHACHA20POLY1305" -> kTLS_CIPHER_CHACHA20_POLY1305

SaltField(family, iv) ==
    IF family = "CHACHA20POLY1305" THEN << >> ELSE SubSeq(iv, 1, 4)

IVField(family, version, iv) ==
    IF family = "CHACHA20POLY1305" THEN iv
    ELSE IF version = VersionTLS13 THEN SubSeq(iv, 5, 12)
    ELSE << 0, 0, 0, 0, 0, 0, 0, 0 >>

C14_WireLayout ==
    EncoderReturned =>
      \A c \in CipherCalls(act.calls) :
          c.val = LE16(hs.version) \o LE16(CipherType(hs.family))
                    \o IVField(hs.family, hs.version, hs.iv)
                    \o hs.key
                    \o SaltField(hs.family, hs.iv)
                    \o hs.seq

\* a TLS 1.2 AES-256-GCM blob went to the kernel with a zero IV field and
\* the 4-byte iv as its salt
C14_Witness ==
    /\ EncoderReturned /\ hs.family = "AES256GCM" /\ hs.version = VersionTLS12
    /\ act.err = nil
    /\ \E c \in CipherCalls(act.calls) :
          /\ SubSeq(c.val, 5, 12) = << 0, 0, 0, 0, 0, 0, 0, 0 >>
          /\ SubSeq(c.val, 45, 48) = hs.iv

(***************************************************************************)
(* C15: writeToFile never makes the file smaller: it changes the file size *)
(* only when offset + remain exceeds it, and then to exactly               *)
(* offset + remain; once it transfers, the file is at least                *)
(* offset + remain long; a completed transfer returns exactly remain, and  *)
(* one that fails before completion returns a count below remain that is  *)
(* the length of the valid data written from offset.                       *)
(***************************************************************************)
\* the first k bytes of the mapped region are the first k bytes of the
\* stream, and nothing was written after them
ValidPrefix(k) ==
    /\ 0 <= k /\ k <= Len(file)
    /\ \A i \in 1..Len(file) : file[i] = (IF i <= k THEN i ELSE 0)

C15_MappedBufferFile ==
    op = "writeToFile" =>
      /\ mmap.size >= mmap.size0
      /\ mmap.size # mmap.size0
           => /\ mmap.offset + spliceReq > mmap.size0
              /\ mmap.size = mmap.offset + spliceReq
      /\ (pc = "mmread" \/ (pc = "returned" /\ ret.handled))
           => mmap.size >= mmap.offset + spliceReq
      /\ (pc = "returned" /\ ret.handled /\ ret.err = nil)
           => (ret.n = spliceReq /\ ValidPrefix(spliceReq))
      /\ (pc = "returned" /\ ret.handled /\ ret.err # nil)
           => /\ ValidPrefix(ret.n)
              /\ ~ValidPrefix(spliceReq) => ret.n < spliceReq

\* a file of 1 byte, offset 1, 3 bytes asked: the file was grown to 4 and
\* the transfer failed after 1 byte
C15_Witness ==
    /\ op = "writeToFile" /\ pc = "returned" /\ ret.handled
    /\ spliceReq = 3 /\ mmap.offset = 1 /\ mmap.size0 = 1 /\ mmap.size = 4
    /\ ret.err = EIO /\ ret.n = 1 /\ file = << 1, 0, 0 >>


\* the probe has run to its end, or to a panic
ProbeEnded == op = "init" /\ pc \in {"returned", "crashed"}

\* the host answered every question of the probe: module present, switch on,
\* uname succeeded
HostAnswered == hs.statOk /\ kTLSEnabled /\ hs.unameOk

\* kernel major.minor is at least M.m
AtLeast(major, minor, M, m) == major > M \/ (major = M /\ minor >= m)

\* the capabilities a kernel major.minor has by the threshold table
TableCaps(major, minor) ==
    [kTLSSupport |-> TRUE,
     kTLSSupportTX |-> AtLeast(major, minor, 4, 13),
     kTLSSupportAESGCM128 |-> AtLeast(major, minor, 4, 13),
     kTLSSupportRX |-> AtLeast(major, minor, 4, 17),
     kTLSSupportAESGCM256 |-> AtLeast(major, minor, 5, 1),
     kTLSSupportTLS13TX |-> AtLeast(major, minor, 5, 1),
     kTLSSupportCHACHA20POLY1305 |-> AtLeast(major, minor, 5, 11),
     kTLSSupportZEROCOPY |-> AtLeast(major, minor, 5, 19),
     kTLSSupportTLS13RX |-> major >= 6,
     kTLSSupportNOPAD |-> major >= 6]

\* C16: for every release string major.minor.patch with any suffix, the probe
\* grants exactly the capabilities the threshold table gives major.minor
C16_ProbeGrantsTable ==
    (ProbeEnded /\ HostAnswered /\ hs.std)
        => (pc = "returned" /\ caps = TableCaps(hs.major, hs.minor))

\* a direction, cipher-family or optional-feature capability
FeatureCaps == DOMAIN NoCaps \ {"kTLSSupport"}

\* what the probe reads as a detection failure
DetectionError ==
    \/ ~hs.statOk
    \/ ~hs.unameOk
    \/ ParseRelease(hs.release).panic
    \/ ParseRelease(hs.release).err

\* C17: whatever the module check, the version query and the release string
\* give, the probe ends without a crash, and after a detection error no
\* direction, cipher-family or optional-feature capability is granted
C17_ProbeNeverFailsLoudly ==
    ProbeEnded
        => /\ pc # "crashed"
           /\ DetectionError => \A f \in FeatureCaps : ~caps[f]


\* the probe parsed a major and a minor and applied the thresholds to them
VersionProbed ==
    /\ ProbeEnded /\ pc = "returned" /\ HostAnswered
    /\ ~ParseRelease(hs.release).panic
    /\ ~ParseRelease(hs.release).err

ProbedVersion ==
    << ParseRelease(hs.release).major, ParseRelease(hs.release).minor >>

\* the versions a probed one is compared with
VersionGrid == (3..7) \X (0..20)

\* v1 is an earlier kernel than v2: by major, then by minor
Earlier(v1, v2) == v1[1] < v2[1] \/ (v1[1] = v2[1] /\ v1[2] < v2[2])

BindAt(calls) ==
    { i \in 1..Len(calls) : calls[i].level = "SOL_TCP" /\ calls[i].opt = TCP_ULP }

CipherAt(calls, opt) ==
    { i \in 1..Len(calls) : calls[i].level = "SOL_TLS" /\ calls[i].opt = opt }

\* C19: in every activation a ULP bind attempt comes before the first
\* cipher-configuration call of either direction and is made at most once:
\* RX after a successful TX does not bind again, and when TX was skipped RX
\* binds before its own cipher option
C19_BindOncePerActivation ==
    ActivationReturned =>
      /\ Cardinality(BindAt(act.calls)) <= 1
      /\ \A i \in CipherAt(act.calls, TLS_TX) \cup CipherAt(act.calls, TLS_RX) :
            \E j \in BindAt(act.calls) : j < i
      /\ (TxSucceeded(act) /\ CipherAt(act.calls, TLS_RX) # {})
            => \A j \in BindAt(act.calls), i \in CipherAt(act.calls, TLS_TX) : j < i
      /\ (~TxSucceeded(act) /\ CipherAt(act.calls, TLS_RX) # {})
            => /\ CipherAt(act.calls, TLS_TX) = {}
               /\ BindAt(act.calls) = {1}
               /\ 2 \in CipherAt(act.calls, TLS_RX)

\* TX and RX both configured behind the one bind
C19_Witness ==
    /\ ActivationReturned
    /\ BindAt(act.calls) = {1}
    /\ CipherAt(act.calls, TLS_TX) = {2}
    /\ CipherAt(act.calls, TLS_RX) # {}
    /\ act.tx /\ act.rx


\* C20: the bytes of a chunk still in the pipe are exactly those the next
\* file-ward splice is issued for, the file holds the rest of what the
\* socket gave, and the pipe is empty whenever the next socket->pipe splice
\* is due or awaited and whenever the transfer has returned without error
C20_PipeDrainedBeforeNextChunk ==
    op = "spliceToFile" =>
      /\ pc = "bump" => (n = Len(pipe) /\ file \o pipe = Stream(0, sockTaken))
      /\ pc \in {"sock", "parked"} => pipe = << >>
      /\ (pc = "returned" /\ ret.err = nil) => pipe = << >>
      /\ pipe = << >> => file = Stream(0, sockTaken)

\* part of a chunk is in the file, the rest still in the pipe, and the
\* file-ward splice is about to be issued for that rest
C20_Witness ==
    /\ op = "spliceToFile" /\ pc = "bump"
    /\ sockTaken = maxSpliceSize /\ spliceReq >= maxSpliceSize
    /\ file # << >> /\ pipe # << >> /\ n = Len(pipe)


(***************************************************************************)
(* C21: every resource a transfer acquires is released exactly once on     *)
(* every exit path: both ends of the splice bridge's pipe are closed when  *)
(* it returns, the fallback's mapping is released when it returns, and     *)
(* nothing is closed or released that was never created                    *)
(***************************************************************************)
C21_ResourcesReleasedOnce ==
    /\ res.closedR <= res.pipes /\ res.closedW <= res.pipes
    /\ res.munmaps <= res.mmaps
    /\ InSplice
         => (res.pipes = 1 /\ res.closedR = 0 /\ res.closedW = 0)
    /\ (op = "spliceToFile" /\ pc = "returned")
         => /\ res.closedR = res.pipes /\ res.closedW = res.pipes
            /\ ret.handled <=> res.pipes = 1
    /\ pc = "mmread" => (res.mmaps = 1 /\ res.munmaps = 0)
    /\ (op = "writeToFile" /\ pc = "returned")
         => /\ res.munmaps = res.mmaps
            /\ ret.handled <=> res.mmaps = 1

\* the bridge returns the deadline's error after a would-block, its pipe
\* closed at both ends
C21_Witness ==
    /\ op = "spliceToFile" /\ pc = "returned" /\ ret.err = ErrDeadline
    /\ res.pipes = 1 /\ res.closedR = 1 /\ res.closedW = 1


\* the kernel accepted every call of an activation made at that level for
\* that option
CallsOk(a, level, opt) ==
    \A c \in Elems(a.calls) : (c.level = level /\ c.opt = opt) => c.ok

\* the TX encoder of the activation was called
TxTried(a) == a.log # << >> /\ a.log[1] \in {LogTxError, LogTxEnabled}

\* what the kernel answered to the calls an activation made, as its record
\* of calls shows it; a call not made counts as accepted
AnswersOf(a) ==
    [bindTx |-> TxTried(a) => CallsOk(a, "SOL_TCP", TCP_ULP),
     optTx  |-> CallsOk(a, "SOL_TLS", TLS_TX),
     zc     |-> CallsOk(a, "SOL_TLS", TLS_TX_ZEROCOPY_RO),
     bindRx |-> TxTried(a) \/ CallsOk(a, "SOL_TCP", TCP_ULP),
     optRx  |-> CallsOk(a, "SOL_TLS", TLS_RX),
     nopad  |-> CallsOk(a, "SOL_TLS", TLS_RX_EXPECT_NO_PAD)]

\* the offload flags and the error of an activation
Outcome(a) == << a.err, a.tx, a.rx >>

\* the zero-copy call is made with the capability, straight after an
\* accepted TX cipher option; the no-pad call with the capability, for
\* TLS 1.3, straight after an accepted RX cipher option
OptimizationsInPlace(a, suite) ==
    \A i \in 1..Len(a.calls) :
       /\ (a.calls[i].level = "SOL_TLS" /\ a.calls[i].opt = TLS_TX_ZEROCOPY_RO)
            => /\ caps.kTLSSupportZEROCOPY
               /\ i > 1 /\ a.calls[i - 1].level = "SOL_TLS"
               /\ a.calls[i - 1].opt = TLS_TX /\ a.calls[i - 1].ok
               /\ a.tx
       /\ (a.calls[i].level = "SOL_TLS" /\ a.calls[i].opt = TLS_RX_EXPECT_NO_PAD)
            => /\ caps.kTLSSupportNOPAD
               /\ SuiteVersion(suite) = VersionTLS13
               /\ i > 1 /\ a.calls[i - 1].level = "SOL_TLS"
               /\ a.calls[i - 1].opt = TLS_RX /\ a.calls[i - 1].ok
               /\ a.rx

\* C22: the best-effort optimizations never change an activation's outcome:
\* whatever the kernel answers to the zero-copy and the no-pad call, the
\* error returned and both offload flags are those of the same activation
\* with the other answer; zero-copy is asked for only after an accepted TX
\* cipher option and with its capability, no-pad only after an accepted RX
\* cipher option, for TLS 1.3 and with its capability
C22_OptimizationsBestEffort ==
    [][ pc = "handshaken"
          => /\ OptimizationsInPlace(act', hs.suite)
             /\ enableKernelTLS(caps, isTCP, hs.suite, hs.m, AnswersOf(act')) = act'
             /\ \A zc \in BOOLEAN, nopad \in BOOLEAN :
                   LET alt == enableKernelTLS(caps, isTCP, hs.suite, hs.m,
                                  [AnswersOf(act') EXCEPT !.zc = zc,
                                                          !.nopad = nopad])
                   IN  /\ Outcome(alt) = Outcome(act')
                       /\ ret'.err = alt.err
                       /\ txOffloaded' = (txOffloaded \/ alt.tx)
                       /\ rxOffloaded' = (rxOffloaded \/ alt.rx) ]_vars

\* both optimizations refused by the kernel, both directions offloaded and
\* no error returned
C22_Witness ==
    /\ ActivationReturned
    /\ \E i \in 1..Len(act.calls) :
          act.calls[i].opt = TLS_TX_ZEROCOPY_RO /\ ~act.calls[i].ok
    /\ \E i \in 1..Len(act.calls) :
          act.calls[i].opt = TLS_RX_EXPECT_NO_PAD /\ ~act.calls[i].ok
    /\ act.err = nil /\ ret.err = nil /\ txOffloaded /\ rxOffloaded


(***************************************************************************)
(* C23: a record read or a tagged record write that the socket's deadline  *)
(* interrupts while it is suspended on would-block returns the deadline's  *)
(* error with a non-negative byte count, never the -1 of the system call   *)
(***************************************************************************)
C23_DeadlineCountNonNegative ==
    (pc = "returned" /\ op \in {"ktlsReadDataFromRecord", "ktlsSendCtrlMessage"}
       /\ ret.err = ErrDeadline)
        => (ret.n >= 0 /\ rec.n >= 0)


(***************************************************************************)
(* C24: bulk transfer moves bytes between the raw socket and the other     *)
(* endpoint only in a direction whose offload flag is true: WriteTo takes  *)
(* bytes from the raw socket only with the RX flag, ReadFrom gives bytes   *)
(* to it only with the TX flag                                             *)
(***************************************************************************)
C24_BulkOnlyWhenOffloaded ==
    /\ (op = "spliceToFile" /\ sockTaken > 0) => rxOffloaded
    /\ (op = "ReadFrom" /\ ret.n > 0) => txOffloaded

\* the connection with its splice bridge running on: a goroutine that can
\* take its next step takes it, and a parked bridge is resumed once the
\* socket is readable again
SpecSpliceFair ==
    /\ Init /\ [][Next]_vars
    /\ WF_pc(SpliceSockToPipe)
    /\ WF_pc(SplicePipeToFile)
    /\ WF_pc(SpliceResume)

(***************************************************************************)
(* C25: the splice bridge eventually returns once the socket has delivered *)
(* the requested bytes or reached its end of stream: a splice that reports *)
(* 0 bytes without error does not keep it looping                          *)
(***************************************************************************)
C25_SpliceEventuallyReturns ==
    (op = "spliceToFile" /\ pc = "sock") ~> (pc = "returned")


(***************************************************************************)
(* C26: in the mapped-buffer fallback every socket read targets a window   *)
(* [start, end) of the region with 0 <= start < end <= remain and          *)
(* end - start <= maxBufferSize; start is the total of the bytes read so   *)
(* far, so the windows are contiguous, neither overlapping nor skipping    *)
(* bytes; and a read failure returns start plus the bytes of the failing   *)
(* read                                                                    *)
(***************************************************************************)
C26_ReadWindows ==
    op = "writeToFile" =>
      /\ pc = "mmread"
           => /\ 0 <= mmap.start /\ mmap.start < mmap.end /\ mmap.end <= remain
              /\ mmap.end - mmap.start <= maxBufferSize
              /\ mmap.start = sockTaken
              /\ ValidPrefix(mmap.start)
      /\ (pc = "returned" /\ ret.handled /\ ret.err # nil)
           => /\ ret.n = mmap.start + n
              /\ ret.n = sockTaken
              /\ n >= 0 /\ mmap.start + n <= mmap.end

\* the second window: one byte read, the window moved on by it and ends
\* with the region
C26_Witness ==
    /\ op = "writeToFile" /\ pc = "mmread"
    /\ remain = 3 /\ mmap.start = 1 /\ mmap.end = 3
    /\ file = << 1, 0, 0 >>

=============================================================================
